---- MODULE Spec2Model ----
(***************************************************************************)
(* A model of the sandbox layer of shesha:                                 *)
(*   - ContainerPool (src/shesha/sandbox/pool.py): the warm pool of        *)
(*     executors, called from several threads;                             *)
(*   - ContainerExecutor (src/shesha/sandbox/executor.py): the host side   *)
(*     of the sandbox protocol, and its _read_line;                        *)
(*   - the runner (src/shesha/sandbox/runner.py): the process inside the   *)
(*     container that executes code and answers on stdout;                 *)
(* of retry_with_backoff (src/shesha/llm/retry.py), of the query loop of   *)
(* RLMEngine with its trace and its llm_query handler, and of              *)
(* extract_citations / extract_quotes / build_verification_code            *)
(* (src/shesha/rlm/verification.py), of validate_prompt                    *)
(* (src/shesha/prompts/validator.py) and of redact                         *)
(* (src/shesha/security/redaction.py).                                     *)
(* Spec         : the pool called by concurrent threads.                   *)
(* SpecSeq      : the pool called by one thread, one call after another.   *)
(* SpecExecutor : one executor driven by one caller against the replies    *)
(*                a container may give.                                    *)
(* SpecRunner   : the runner fed lines on stdin.                           *)
(* SpecLine     : _read_line called repeatedly on one framed stream.       *)
(* SpecRetry    : one retry_with_backoff call; SpecRetryLive adds weak     *)
(*                fairness of its steps.                                   *)
(* SpecEngine   : two query() calls on one engine, with or without a pool; *)
(*                SpecEngineLive adds weak fairness of their steps.        *)
(* SpecSubcall  : llm_query calls handled with a validated subcall.md.     *)
(* SpecCitations, SpecQuotes : the two extraction functions applied to     *)
(*                every answer made of a few tokens.                       *)
(* SpecValidate : validate_prompt applied to a prompt file of a few tokens.*)
(* SpecRedact   : redact applied to texts of a few parts, and to its own   *)
(*                result.                                                  *)
(* SpecHolders  : the pool called by threads that release or discard only  *)
(*                executors they acquired and still hold.                  *)
(* SpecVerify   : build_verification_code and the program it returns, run  *)
(*                on a context of a few documents.                         *)
(* SpecSession  : execute() calls of one executor against runner.main().   *)
(***************************************************************************)
EXTENDS Integers, Sequences, FiniteSets, TLC

\* ------------------------------------------------------------------ bounds
\* Largest `size` a pool is constructed with.
MaxSize == 1
\* Cap on the number of ContainerExecutor objects ever constructed.
MaxExecutors == 2

\* The threads that call the pool, and the one caller of SpecSeq.
Threads == {"t1", "t2"}
SeqThreads == {"t1"}

\* No thread holds the mutex / no executor.
NoThread == "none"
NoExecutor == 0

Range(s) == {s[k] : k \in 1..Len(s)}
Max(a, b) == IF a >= b THEN a ELSE b

\* ---------------------------------------------------------- ContainerPool
VARIABLES
    size,        \* self.size
    available,   \* self._available : deque of executors, head first
    in_use,      \* self._in_use : set of executors
    started,     \* self._started
    lock,        \* self._lock : the thread holding it, or NoThread
    pc,          \* per thread: the statement it is at inside a pool method
    local,       \* per thread: the locals and arguments of its current call
    last,        \* the outcome of the call that returned last
    created,     \* number of ContainerExecutor objects constructed (ids 1..created)
    running,     \* executors whose start() was called and stop() was not
    warmed,      \* executors start() has appended since the pool was last cleared
    discarded,   \* executors discard() was called with
    dropped,     \* executors discard() removed from the in-use set
    peak         \* largest number of executors in use at the same time

poolVars == <<size, available, in_use, started, lock, pc, local, last,
              created, running, warmed, discarded, dropped, peak>>

\* ------------------------------------------------------ ContainerExecutor
VARIABLES
    executor,    \* the attributes of one ContainerExecutor object
    epc,         \* the statement its single caller is at
    sent,        \* what the current call has written to the container's stdin
    received,    \* the JSON replies the current call has read
    answers,     \* what llm_query_handler returned during the current call
    outcome,     \* how the last call ended
    result,      \* the ExecutionResult the last execute() returned
    docker       \* what the docker client was asked: the keyword arguments
                 \* of every containers.run, the calls the last stop() saw fail

execVars == <<executor, epc, sent, received, answers, outcome, result, docker>>

\* ------------------------------------------------------------- runner.py
VARIABLES
    NAMESPACE,    \* the global NAMESPACE dict: name -> value
    rpc,          \* where the runner process is
    sys_stdout,   \* what sys.stdout is bound to: "real" or "capture"
    stdout,       \* the messages written to the process's real stdout
    code,         \* the program of the execute command being handled
    ip,           \* the statement of `code` that runs next
    target,       \* the name the pending llm_query call assigns to
    capture,      \* stdout_capture of the running execute_code
    err,          \* the exception that ended the running code, or None
    return_value, \* return_value of the execute_code that ended last
    handled,      \* the action of the command handled last
    commands,     \* lines read by `for line in sys.stdin`
    calls,        \* the llm_query calls made by the program in progress
    responses,    \* the lines sys.stdin.readline() gave to those calls
    handed        \* what those calls returned to the program

runnerVars == <<NAMESPACE, rpc, sys_stdout, stdout, code, ip, target, capture,
                err, return_value, handled, commands, calls, responses,
                handed>>

\* ------------------------------------------- ContainerExecutor._read_line
VARIABLES
    wire,         \* the bytes of the attach socket that recv() has not given yet
    payload,      \* the bytes the sandbox wrote, before they were framed
    read_buffer,  \* self._read_buffer
    lpc,          \* where the current _read_line call is
    returned      \* how the _read_line calls so far have ended, oldest first

lineVars == <<wire, payload, read_buffer, lpc, returned>>

\* ----------------------------------------------------------- llm/retry.py
VARIABLES
    config,       \* the RetryConfig of the retry_with_backoff call
    on_retry,     \* its on_retry argument: None or a callback
    attempt,      \* the loop variable `attempt`
    last_error,   \* last_error
    wpc,          \* where the call is
    events,       \* the calls of fn, on_retry and time.sleep so far, in order
    ended         \* how the call has ended

retryVars == <<config, on_retry, attempt, last_error, wpc, events, ended>>

\* --------------------------------------------------------------- RLMEngine
VARIABLES
    engine,        \* the engine's configuration: pool, max_iterations, verify flags
    iteration,     \* the loop counter of query()
    has_final,     \* a FINAL / FINAL_VAR was seen
    current,       \* the executor the query holds, or NoExecutor
    is_alive,      \* executor.is_alive of that executor
    qpc,           \* where query() is
    llm_calls,     \* calls of the outer model made by the loop of this query
    trace,         \* result.trace.steps: the steps recorded in memory
    trace_file,    \* the lines of the query's JSONL trace file
    query_result,  \* what the caller of query() receives
    pool_calls,    \* the calls this query made on the pool and on executors
    dirty,         \* executors whose namespace holds what a query executed
    again          \* this is the second query() on the engine

engineVars == <<engine, iteration, has_final, current, is_alive, qpc,
                llm_calls, trace, trace_file, query_result, pool_calls,
                dirty, again>>

\* ------------------------------------------------- RLMEngine._handle_llm_query
VARIABLES
    subcall_template,           \* the text of prompts/subcall.md, as tokens
    max_subcall_content_chars,  \* self.max_subcall_content_chars
    sub_content,                \* the content argument of the last llm_query
    sub_prompt,                 \* the prompt of the last sub-model call
    sub_outcome                 \* how the last _handle_llm_query call ended

subVars == <<subcall_template, max_subcall_content_chars, sub_content,
             sub_prompt, sub_outcome>>

\* -------------------------------------- extract_citations and extract_quotes
VARIABLES
    answer_text,  \* the answer given to extract_citations / extract_quotes
    citations,    \* what extract_citations returned
    quotes,       \* what extract_quotes returned
    xpc           \* "call" before the function is called, "returned" after

extractVars == <<answer_text, citations, quotes, xpc>>

\* --------------------------------------------------------- validate_prompt
VARIABLES
    prompt_file,  \* the filename given to validate_prompt
    prompt_text,  \* the content given to validate_prompt, as tokens
    validation    \* "none" before the call, then "accepted" or the exception

validateVars == <<prompt_file, prompt_text, validation>>

\* ------------------------------------------------------------------ redact
VARIABLES
    secret_text,  \* the text given to the first redact call, as characters
    redaction,    \* the RedactionConfig given to both calls
    redacted      \* the texts returned so far, redact(s) then redact(redact(s))

redactVars == <<secret_text, redaction, redacted>>

\* ------------------------------------------------- the callers of the pool
VARIABLES
    held         \* per thread: the executors acquire() returned to it and it
                 \* has not passed to release() or discard() since

heldVars == <<held>>

\* -------------------------------------------------- build_verification_code
VARIABLES
    context,      \* the sandbox's `context`: bound or not, and the documents
    verification_code, \* the program build_verification_code returned
    verified      \* the JSON object the program printed

verifyVars == <<context, verification_code, verified>>

\* ------------------------------------- one executor and its runner, together
VARIABLES
    to_runner,          \* lines written to the container's stdin, not yet read
    to_host,            \* lines the runner printed, not yet read by the host
    host_at,            \* where the host is: idle or inside execute()
    runner_at,          \* where runner.main() is
    execution_results   \* what each execute() that returned has returned

sessionVars == <<to_runner, to_host, host_at, runner_at, execution_results>>

vars == <<poolVars, execVars, runnerVars, lineVars, retryVars, engineVars,
         subVars,
         extractVars,
         validateVars,
         redactVars,
         heldVars,
         verifyVars,
         sessionVars>>

\* What an action of one component leaves alone: the other components.
notPool == <<execVars, runnerVars, lineVars, retryVars, engineVars,
    subVars,
    extractVars,
    validateVars,
    redactVars,
    verifyVars,
    sessionVars>>
notExecutor == <<poolVars, runnerVars, lineVars, retryVars, engineVars,
    subVars,
    extractVars,
    validateVars,
    redactVars,
    heldVars,
    verifyVars,
    sessionVars>>
notRunner == <<poolVars, execVars, lineVars, retryVars, engineVars,
    subVars,
    extractVars,
    validateVars,
    redactVars,
    heldVars,
    verifyVars,
    sessionVars>>
notLine == <<poolVars, execVars, runnerVars, retryVars, engineVars,
    subVars,
    extractVars,
    validateVars,
    redactVars,
    heldVars,
    verifyVars,
    sessionVars>>
notRetry == <<poolVars, execVars, runnerVars, lineVars, engineVars,
    subVars,
    extractVars,
    validateVars,
    redactVars,
    heldVars,
    verifyVars,
    sessionVars>>
\* The engine calls the pool: its steps leave the other components alone.
notEngine == <<execVars, runnerVars, lineVars, retryVars,
    subVars,
    extractVars,
    validateVars,
    redactVars,
    heldVars,
    verifyVars,
    sessionVars>>
notSubcall == <<poolVars, execVars, runnerVars, lineVars, retryVars, engineVars,
    extractVars,
    validateVars,
    redactVars,
    heldVars,
    verifyVars,
    sessionVars>>
notExtract == <<poolVars, execVars, runnerVars, lineVars, retryVars, engineVars, subVars,
    validateVars,
    redactVars,
    heldVars,
    verifyVars,
    sessionVars>>
notValidate == <<poolVars, execVars, runnerVars, lineVars, retryVars, engineVars, subVars, extractVars,
    redactVars,
    heldVars,
    verifyVars,
    sessionVars>>
notRedact == <<poolVars, execVars, runnerVars, lineVars, retryVars, engineVars, subVars, extractVars, validateVars,
    heldVars,
    verifyVars,
    sessionVars>>
notHeld == <<poolVars, execVars, runnerVars, lineVars, retryVars, engineVars, subVars, extractVars, validateVars, redactVars,
    verifyVars,
    sessionVars>>
notVerify == <<poolVars, execVars, runnerVars, lineVars, retryVars, engineVars, subVars, extractVars, validateVars, redactVars, heldVars,
    sessionVars>>
notSession == <<poolVars, execVars, runnerVars, lineVars, retryVars, engineVars, subVars, extractVars, validateVars, redactVars, heldVars, verifyVars>>


NoLocal == [executor |-> NoExecutor, i |-> 0, state |-> 0]
NoCall == [op |-> "none", result |-> "none", executor |-> NoExecutor]

\* ContainerPool.__init__
PoolInit ==
    /\ size \in 0..MaxSize
    /\ available = <<>>
    /\ in_use = {}
    /\ started = FALSE
    /\ lock = NoThread
    /\ pc = [t \in Threads |-> "idle"]
    /\ local = [t \in Threads |-> NoLocal]
    /\ last = NoCall
    /\ created = 0
    /\ running = {}
    /\ warmed = 0
    /\ discarded = {}
    /\ dropped = {}
    /\ peak = 0

\* `with self._lock:` entered / left by thread t.
LockFree == lock = NoThread
Locked(t) == lock' = t
Unlocked == lock' = NoThread

Return(t, call) ==
    /\ pc' = [pc EXCEPT ![t] = "idle"]
    /\ local' = [local EXCEPT ![t] = NoLocal]
    /\ last' = call

Goto(t, label) == pc' = [pc EXCEPT ![t] = label]

\* ContainerExecutor(...) followed by executor.start(): a fresh executor.
NewExecutor == created + 1

\* --- start(): takes no lock ------------------------------------------------
\* A start() that warms the pool again although it is started.
AlreadyStartedIgnored == FALSE

\* `if self._started:` of start()
AlreadyStarted == started

\* `if self._started: return`
StartCall(t) ==
    /\ pc[t] = "idle"
    /\ IF AlreadyStarted
       THEN /\ Return(t, [op |-> "start", result |-> "already_started",
                          executor |-> NoExecutor])
       ELSE /\ Goto(t, "start_loop")
            /\ UNCHANGED <<local, last>>
    /\ UNCHANGED <<size, available, in_use, started, lock, created, running,
                   warmed, discarded, dropped, peak>>
    /\ UNCHANGED notPool

\* One turn of `for _ in range(self.size)`: construct, start, append.
StartCreate(t) ==
    /\ pc[t] = "start_loop"
    /\ local[t].i < size
    /\ created < MaxExecutors
    /\ created' = NewExecutor
    /\ running' = running \cup {NewExecutor}
    /\ available' = Append(available, NewExecutor)
    /\ warmed' = warmed + 1
    /\ local' = [local EXCEPT ![t].i = @ + 1]
    /\ UNCHANGED <<size, in_use, started, lock, pc, last, discarded, dropped,
                   peak>>
    /\ UNCHANGED notPool

\* `self._started = True` after the loop.
StartFinish(t) ==
    /\ pc[t] = "start_loop"
    /\ local[t].i = size
    /\ started' = TRUE
    /\ Return(t, [op |-> "start", result |-> "started", executor |-> NoExecutor])
    /\ UNCHANGED <<size, available, in_use, lock, created, running, warmed,
                   discarded, dropped, peak>>
    /\ UNCHANGED notPool

\* --- stop() ------------------------------------------------------------------
\* `with self._lock:` and the iterator of `for executor in self._available`,
\* which remembers the state of the deque (its length: start() only appends).
StopLock(t) ==
    /\ pc[t] = "idle"
    /\ LockFree
    /\ Locked(t)
    /\ Goto(t, "stop_available")
    /\ local' = [local EXCEPT ![t] = [NoLocal EXCEPT !.i = 1,
                                                     !.state = Len(available)]]
    /\ UNCHANGED <<size, available, in_use, started, last, created, running,
                   warmed, discarded, dropped, peak>>
    /\ UNCHANGED notPool

\* One next() of the deque iterator: RuntimeError if the deque was mutated
\* since the iterator was made (the exception leaves the `with` block), else
\* executor.stop() on the next one, else the loop ends.
StopAvailable(t) ==
    /\ pc[t] = "stop_available"
    /\ IF Len(available) # local[t].state
       THEN /\ Unlocked
            /\ Return(t, [op |-> "stop", result |-> "RuntimeError",
                          executor |-> NoExecutor])
            /\ UNCHANGED running
       ELSE IF local[t].i <= Len(available)
       THEN /\ running' = running \ {available[local[t].i]}
            /\ local' = [local EXCEPT ![t].i = @ + 1]
            /\ UNCHANGED <<lock, pc, last>>
       ELSE /\ Goto(t, "stop_in_use")
            /\ UNCHANGED <<lock, local, last, running>>
    /\ UNCHANGED <<size, available, in_use, started, created, warmed,
                   discarded, dropped, peak>>
    /\ UNCHANGED notPool

\* A stop() that forgets the executors that are in use.
RunningAfterStopSkipsInUse == running

\* The executors still running after `for executor in self._in_use: executor.stop()`
RunningAfterStopInUse == running \ in_use

\* `for executor in self._in_use: executor.stop()`
StopInUse(t) ==
    /\ pc[t] = "stop_in_use"
    /\ running' = RunningAfterStopInUse
    /\ Goto(t, "stop_clear")
    /\ UNCHANGED <<size, available, in_use, started, lock, local, last,
                   created, warmed, discarded, dropped, peak>>
    /\ UNCHANGED notPool

\* clear(), clear(), `self._started = False`, and the lock is left.
StopClear(t) ==
    /\ pc[t] = "stop_clear"
    /\ available' = <<>>
    /\ in_use' = {}
    /\ started' = FALSE
    /\ warmed' = 0
    /\ Unlocked
    /\ Return(t, [op |-> "stop", result |-> "stopped", executor |-> NoExecutor])
    /\ UNCHANGED <<size, created, running, discarded, dropped, peak>>
    /\ UNCHANGED notPool

\* --- acquire() ---------------------------------------------------------------
AcquireLock(t) ==
    /\ pc[t] = "idle"
    /\ LockFree
    /\ Locked(t)
    /\ Goto(t, "acquire")
    /\ UNCHANGED <<size, available, in_use, started, local, last, created,
                   running, warmed, discarded, dropped, peak>>
    /\ UNCHANGED notPool

\* An acquire() that does not look at the started flag.
AcquireRefusedNever == FALSE

\* `if not self._started:` of acquire()
AcquireRefused == ~started

\* An acquire() that hands the executor out without recording it.
InUseAfterAcquireForgets(e) == in_use

\* `self._in_use.add(executor)`
InUseAfterAcquire(e) == in_use \cup {e}

\* An acquire() that leaves the executor it returns at the head of the queue.
AvailableAfterAcquireKeeps == available

\* The queue after `executor = self._available.popleft()`
AvailableAfterAcquire == Tail(available)

\* The body of acquire(), under the lock.
AcquireBody(t) ==
    /\ pc[t] = "acquire"
    /\ IF AcquireRefused
       THEN \* raise RuntimeError("Cannot acquire from a stopped pool")
            /\ Return(t, [op |-> "acquire", result |-> "PoolStopped",
                          executor |-> NoExecutor])
            /\ UNCHANGED <<available, in_use, created, running, peak>>
       ELSE IF available # <<>>
       THEN \* executor = self._available.popleft(); self._in_use.add(executor)
            /\ available' = AvailableAfterAcquire
            /\ in_use' = InUseAfterAcquire(Head(available))
            /\ peak' = Max(peak, Cardinality(InUseAfterAcquire(Head(available))))
            /\ Return(t, [op |-> "acquire", result |-> "pooled",
                          executor |-> Head(available)])
            /\ UNCHANGED <<created, running>>
       ELSE \* pool exhausted: a new executor is constructed and started
            /\ created < MaxExecutors
            /\ created' = NewExecutor
            /\ running' = running \cup {NewExecutor}
            /\ in_use' = InUseAfterAcquire(NewExecutor)
            /\ peak' = Max(peak, Cardinality(InUseAfterAcquire(NewExecutor)))
            /\ Return(t, [op |-> "acquire", result |-> "created",
                          executor |-> NewExecutor])
            /\ UNCHANGED available
    /\ Unlocked
    /\ UNCHANGED <<size, started, warmed, discarded, dropped>>
    /\ UNCHANGED notPool

\* --- release(executor) / discard(executor) ------------------------------------
\* A caller may pass any executor that exists.
ReleaseLock(t, e) ==
    /\ pc[t] = "idle"
    /\ LockFree
    /\ Locked(t)
    /\ Goto(t, "release")
    /\ local' = [local EXCEPT ![t] = [NoLocal EXCEPT !.executor = e]]
    /\ UNCHANGED <<size, available, in_use, started, last, created, running,
                   warmed, discarded, dropped, peak>>
    /\ UNCHANGED notPool

\* A release() that leaves the executor in the in-use set.
InUseAfterReleaseKeeps(e) == in_use

\* `self._in_use.remove(executor)`
InUseAfterRelease(e) == in_use \ {e}

\* A release() that puts the executor at the head of the queue.
AvailableAfterReleaseAtHead(e) == <<e>> \o available

\* `self._available.append(executor)`
AvailableAfterRelease(e) == Append(available, e)

\* A release() that takes back whatever executor it is given.
ReleasedInUseAlways(e) == TRUE

\* `if executor in self._in_use:` of release()
ReleasedInUse(e) == e \in in_use

\* The body of release(), under the lock.
ReleaseBody(t) ==
    /\ pc[t] = "release"
    /\ IF ReleasedInUse(local[t].executor)
       THEN /\ in_use' = InUseAfterRelease(local[t].executor)
            /\ available' = AvailableAfterRelease(local[t].executor)
            /\ Return(t, [op |-> "release", result |-> "returned",
                          executor |-> local[t].executor])
       ELSE /\ Return(t, [op |-> "release", result |-> "ignored",
                          executor |-> local[t].executor])
            /\ UNCHANGED <<available, in_use>>
    /\ Unlocked
    /\ UNCHANGED <<size, started, created, running, warmed, discarded,
                   dropped, peak>>
    /\ UNCHANGED notPool

DiscardLock(t, e) ==
    /\ pc[t] = "idle"
    /\ LockFree
    /\ Locked(t)
    /\ Goto(t, "discard")
    /\ local' = [local EXCEPT ![t] = [NoLocal EXCEPT !.executor = e]]
    /\ UNCHANGED <<size, available, in_use, started, last, created, running,
                   warmed, discarded, dropped, peak>>
    /\ UNCHANGED notPool

\* A discard() that leaves the executor in the in-use set.
InUseAfterDiscardKeeps(e) == in_use

\* `self._in_use.discard(executor)`
InUseAfterDiscard(e) == in_use \ {e}

\* The body of discard(), under the lock.
DiscardBody(t) ==
    /\ pc[t] = "discard"
    /\ in_use' = InUseAfterDiscard(local[t].executor)
    /\ discarded' = discarded \cup {local[t].executor}
    /\ dropped' = IF local[t].executor \in in_use
                  THEN dropped \cup {local[t].executor} ELSE dropped
    /\ Return(t, [op |-> "discard",
                  result |-> IF local[t].executor \in in_use
                             THEN "dropped" ELSE "ignored",
                  executor |-> local[t].executor])
    /\ Unlocked
    /\ UNCHANGED <<size, available, started, created, running, warmed, peak>>
    /\ UNCHANGED notPool

\* ---------------------------------------------- ContainerExecutor: calls
\* Largest number of llm_query requests the sandbox makes during one execute.
MaxQueries == 2

None == "None"

\* What llm_query_handler may return.
Answers == {"answer A", "answer B"}

\* The JSON objects the sandbox may reply with.
QueryRequest == [action |-> "llm_query", instruction |-> "summarize", content |-> "text"]
ResultReplies ==
    { [status |-> "ok", stdout |-> "out", stderr |-> "", return_value |-> None,
       error |-> None],
      [status |-> "ok", stdout |-> "", stderr |-> "", return_value |-> None,
       error |-> None, final_answer |-> "42"],
      [status |-> "error", error |-> "Unknown action: None"],
      [message |-> "pong"] }
JsonReplies == {QueryRequest} \cup ResultReplies

\* What a read can end in instead: recv() times out, the stream is at EOF
\* (_read_line returns ""), or the line is not JSON.
ReadFailures == {"timeout", "eof", "not json"}

\* dict.get(key, default)
Get(d, key, default) == IF key \in DOMAIN d THEN d[key] ELSE default

NoOutcome == [op |-> "none", status |-> "none", error |-> None]
NoResult == [status |-> None, stdout |-> None, stderr |-> None,
             return_value |-> None, error |-> None, final_answer |-> None,
             final_var |-> None, final_value |-> None]

\* ContainerExecutor.__init__: the attributes of a new executor, with or
\* without an llm_query_handler.
NewContainerExecutor(handler) ==
    [image |-> "shesha-sandbox", memory_limit |-> "512m", cpu_count |-> 1,
     llm_query_handler |-> handler, client |-> None, container |-> None,
     socket |-> None, read_buffer |-> <<>>]

\* ContainerSecurityConfig(): the fields after __post_init__.
ContainerSecurityConfig ==
    [cap_drop |-> <<"ALL">>, privileged |-> FALSE, network_disabled |-> TRUE,
     read_only |-> TRUE, security_opt |-> <<"no-new-privileges:true">>]

\* ContainerSecurityConfig.to_docker_kwargs()
ToDockerKwargs(cfg) ==
    [cap_drop |-> cfg.cap_drop, privileged |-> cfg.privileged,
     network_disabled |-> cfg.network_disabled, read_only |-> cfg.read_only,
     security_opt |-> cfg.security_opt]

DEFAULT_SECURITY == ContainerSecurityConfig

\* What containers.run assumes for a keyword argument it is not given: no
\* capability dropped, no security option, no limit.
RunDefaults ==
    [cap_drop |-> <<>>, privileged |-> FALSE, network_disabled |-> FALSE,
     read_only |-> FALSE, security_opt |-> <<>>, mem_limit |-> "",
     cpu_count |-> 0]

\* The keyword arguments start() gives to containers.run.
RunKwargs(e) ==
    [detach |-> TRUE, stdin_open |-> TRUE, tty |-> FALSE,
     mem_limit |-> e.memory_limit, cpu_count |-> e.cpu_count,
     network_disabled |-> TRUE]

\* No container was asked for, no call has failed.
NoDocker == [runs |-> {}, failed |-> {}]

ExecutorInit ==
    /\ executor \in {NewContainerExecutor(h) : h \in {None, "handler"}}
    /\ epc = "idle"
    /\ sent = <<>>
    /\ received = <<>>
    /\ answers = <<>>
    /\ outcome = NoOutcome
    /\ result = NoResult
    /\ docker = NoDocker

\* The executor of the pool specifications: constructed and left alone.
ExecutorUnused ==
    /\ executor = NewContainerExecutor(None)
    /\ epc = "idle"
    /\ sent = <<>>
    /\ received = <<>>
    /\ answers = <<>>
    /\ outcome = NoOutcome
    /\ result = NoResult
    /\ docker = NoDocker

\* _send_raw: written only when there is a socket.
SendRaw(log, message) ==
    IF executor.socket # None THEN Append(log, message) ELSE log

\* A call ends: it returns, or an exception leaves it.
Returned(op) ==
    /\ epc' = "idle"
    /\ outcome' = [op |-> op, status |-> "returned", error |-> None]

Raised(op, error) ==
    /\ epc' = "idle"
    /\ outcome' = [op |-> op, status |-> "raised", error |-> error]

\* The exception a failed read ends the call with.
ReadError(failure) ==
    IF failure = "timeout" THEN "socket.timeout" ELSE "JSONDecodeError"

\* start()
ExecutorStart ==
    /\ epc = "idle"
    /\ executor' = [executor EXCEPT !.read_buffer = <<>>, !.client = "docker",
                                   !.container = "running", !.socket = "open"]
    /\ docker' = [docker EXCEPT !.runs = @ \cup {RunKwargs(executor)}]
    /\ Returned("start")
    /\ UNCHANGED <<sent, received, answers, result>>
    /\ UNCHANGED notExecutor

\* stop() turned so that a failed docker call ends it with the exception.
SwallowedNot(failed) ==
    IF failed = {} THEN Returned("stop") ELSE Raised("stop", "APIError")

\* try: ... except Exception: pass, around container.stop and
\* container.remove: stop() returns whichever of the two calls failed.
Swallowed(failed) == Returned("stop")

\* stop(): the socket is closed and forgotten, then the container is stopped
\* and removed, either of which can fail, and forgotten.
ExecutorStop ==
    /\ epc = "idle"
    /\ \E failed \in SUBSET {"stop", "remove"} :
          /\ executor.container = None => failed = {}
          /\ docker' = [docker EXCEPT !.failed = failed]
          /\ Swallowed(failed)
    /\ executor' = [executor EXCEPT !.socket = None, !.container = None]
    /\ UNCHANGED <<sent, received, answers, result>>
    /\ UNCHANGED notExecutor

\* setup_context(): _send_command sends the setup command ...
SetupSend ==
    /\ epc = "idle"
    /\ sent' = SendRaw(<<>>, [action |-> "setup"])
    /\ received' = <<>>
    /\ answers' = <<>>
    /\ epc' = "setup_read"
    /\ UNCHANGED <<executor, outcome, result>>
    /\ UNCHANGED docker
    /\ UNCHANGED notExecutor

\* ... reads one line and json.loads it; the reply itself is not looked at.
SetupRead ==
    /\ epc = "setup_read"
    /\ IF executor.socket = None
       THEN /\ Raised("setup_context", "RuntimeError")
            /\ UNCHANGED received
       ELSE \/ \E failure \in ReadFailures :
                /\ Raised("setup_context", ReadError(failure))
                /\ UNCHANGED received
            \/ \E reply \in ResultReplies :
                /\ received' = Append(received, reply)
                /\ Returned("setup_context")
    /\ UNCHANGED <<executor, sent, answers, result>>
    /\ UNCHANGED docker
    /\ UNCHANGED notExecutor

\* execute(): the execute command is sent.
ExecuteSend ==
    /\ epc = "idle"
    /\ sent' = SendRaw(<<>>, [action |-> "execute"])
    /\ received' = <<>>
    /\ answers' = <<>>
    /\ epc' = "execute_read"
    /\ UNCHANGED <<executor, outcome, result>>
    /\ UNCHANGED docker
    /\ UNCHANGED notExecutor

\* An execute() that takes no reply for an llm_query request.
IsQueryNever(reply) == FALSE

\* `if result.get("action") == "llm_query":`
IsQuery(reply) == Get(reply, "action", None) = "llm_query"

\* An execute() that builds its result without the reply's final answer.
ExecutionResultDropsFinal(reply) ==
    [status |-> Get(reply, "status", "error"),
     stdout |-> Get(reply, "stdout", ""),
     stderr |-> Get(reply, "stderr", ""),
     return_value |-> Get(reply, "return_value", None),
     error |-> Get(reply, "error", None),
     final_answer |-> None,
     final_var |-> Get(reply, "final_var", None),
     final_value |-> Get(reply, "final_value", None)]

\* `return ExecutionResult(status=result.get("status", "error"), ...)`
ExecutionResult(reply) ==
    [status |-> Get(reply, "status", "error"),
     stdout |-> Get(reply, "stdout", ""),
     stderr |-> Get(reply, "stderr", ""),
     return_value |-> Get(reply, "return_value", None),
     error |-> Get(reply, "error", None),
     final_answer |-> Get(reply, "final_answer", None),
     final_var |-> Get(reply, "final_var", None),
     final_value |-> Get(reply, "final_value", None)]

QueriesIn(log) == Cardinality({k \in 1..Len(log) : IsQuery(log[k])})

\* One turn of `while True`: _read_line and json.loads, then either the
\* reply is an llm_query request or it is the final result.
ExecuteRead ==
    /\ epc = "execute_read"
    /\ IF executor.socket = None
       THEN /\ Raised("execute", "RuntimeError")
            /\ UNCHANGED <<received, result>>
       ELSE \/ \E failure \in ReadFailures :
                /\ Raised("execute", ReadError(failure))
                /\ UNCHANGED <<received, result>>
            \/ \E reply \in JsonReplies :
                /\ reply = QueryRequest => QueriesIn(received) < MaxQueries
                /\ received' = Append(received, reply)
                /\ IF IsQuery(reply)
                   THEN /\ epc' = "execute_query"
                        /\ UNCHANGED <<outcome, result>>
                   ELSE /\ result' = ExecutionResult(reply)
                        /\ Returned("execute")
    /\ UNCHANGED <<executor, sent, answers>>
    /\ UNCHANGED docker
    /\ UNCHANGED notExecutor

\* An execute() that answers every request with the no-handler error.
LLMResponseAlwaysError(answer) ==
    [action |-> "llm_response", result |-> "ERROR: No LLM query handler configured"]

\* The llm_response message for what the handler returned.
LLMResponse(answer) == [action |-> "llm_response", result |-> answer]

\* The reply to an llm_query request: the error message when there is no
\* handler; else the handler is called, and it returns or raises.
ExecuteQuery ==
    /\ epc = "execute_query"
    /\ IF executor.llm_query_handler = None
       THEN /\ sent' = SendRaw(sent, [action |-> "llm_response",
                  result |-> "ERROR: No LLM query handler configured"])
            /\ epc' = "execute_read"
            /\ UNCHANGED <<answers, outcome>>
       ELSE \/ \E answer \in Answers :
                /\ answers' = Append(answers, answer)
                /\ sent' = SendRaw(sent, LLMResponse(answer))
                /\ epc' = "execute_read"
                /\ UNCHANGED outcome
            \/ /\ Raised("execute", "handler error")
               /\ UNCHANGED <<answers, sent>>
    /\ UNCHANGED <<executor, received, result>>
    /\ UNCHANGED docker
    /\ UNCHANGED notExecutor

\* ------------------------------------------------------------- runner.py
\* Cap on the lines the runner reads from stdin in one run.
MaxLines == 3

\* Python values: a type tag and the text str() gives.
NoneValue == [type |-> "None", v |-> "None"]
Str(text) == [type |-> "str", v |-> text]
Callable(name) == [type |-> "callable", v |-> name]
\* class FinalAnswer / class FinalVar, and the functions FINAL / FINAL_VAR
FinalAnswer(answer) == [type |-> "FinalAnswer", v |-> answer]
FinalVar(var_name) == [type |-> "FinalVar", v |-> var_name]

\* d[key] = value, and d without key
Put(d, key, value) ==
    [n \in DOMAIN d \cup {key} |-> IF n = key THEN value ELSE d[n]]
Pop(d, key) == [n \in DOMAIN d \ {key} |-> d[n]]

\* The names main() binds before it reads the first command.
Builtins == {"llm_query", "FINAL", "FINAL_VAR", "FinalAnswer", "FinalVar"}

\* The programs an execute command may carry, statement by statement:
\*   bind      : name = 'arg'
\*   print     : print(name)
\*   query     : name = llm_query('summarize', 'text')
\*   final     : _return_value_ = FINAL('arg')
\*   final_var : _return_value_ = FINAL_VAR('arg')
\*   return    : _return_value_ = 'arg'
\*   raise     : raise ValueError()
\* They end, raise nothing but Exception subclasses, and reach the runner
\* only through the namespace, print and llm_query.
Stmt(op, name, arg) == [op |-> op, name |-> name, arg |-> arg]
QueryProgram(n) ==
    [k \in 1..(n + 1) |-> IF k <= n THEN Stmt("query", "r", "")
                                    ELSE Stmt("print", "r", "")]
Programs ==
    { <<Stmt("bind", "x", "1")>>,
      <<Stmt("print", "x", "")>>,
      <<Stmt("final", "", "42")>>,
      <<Stmt("final_var", "", "x")>>,
      <<Stmt("final", "", "42"), Stmt("raise", "", "")>>,
      <<Stmt("return", "", "5"), Stmt("raise", "", "")>> }
    \cup {QueryProgram(n) : n \in 1..MaxQueries}

\* The lines the other end of stdin may write: commands, llm_response
\* messages, and text that is not JSON.  stdin is the attached stream of the
\* container and stays open as long as the runner lives.
Results == {"R1", "R2"}
Command(action) == [json |-> TRUE, action |-> action, code |-> <<>>, result |-> ""]
Lines ==
    {Command(a) : a \in {"setup", "ping", "reset", "bogus"}}
    \cup {[json |-> TRUE, action |-> "execute", code |-> p, result |-> ""] :
             p \in Programs}
    \cup {[json |-> TRUE, action |-> "llm_response", code |-> <<>>, result |-> r] :
             r \in Results}
    \cup {[json |-> FALSE, action |-> "", code |-> <<>>, result |-> ""]}

LinesRead == commands + Len(responses)

\* The state when main() enters `for line in sys.stdin`.
RunnerInit ==
    /\ NAMESPACE = [n \in Builtins |-> Callable(n)]
    /\ rpc = "loop"
    /\ sys_stdout = "real"
    /\ stdout = <<>>
    /\ code = <<>>
    /\ ip = 0
    /\ target = ""
    /\ capture = <<>>
    /\ err = None
    /\ return_value = NoneValue
    /\ handled = "none"
    /\ commands = 0
    /\ calls = 0
    /\ responses = <<>>
    /\ handed = <<>>

\* The runner of the pool and executor specifications: not running.
RunnerUnused ==
    /\ NAMESPACE = [n \in {} |-> NoneValue]
    /\ rpc = "off"
    /\ sys_stdout = "real"
    /\ stdout = <<>>
    /\ code = <<>>
    /\ ip = 0
    /\ target = ""
    /\ capture = <<>>
    /\ err = None
    /\ return_value = NoneValue
    /\ handled = "none"
    /\ commands = 0
    /\ calls = 0
    /\ responses = <<>>
    /\ handed = <<>>

\* print(json.dumps(message), flush=True): written to whatever sys.stdout
\* is bound to at that moment.
PrintJson(message) ==
    IF sys_stdout = "real"
    THEN /\ stdout' = Append(stdout, message)
         /\ UNCHANGED capture
    ELSE /\ capture' = Append(capture, message)
         /\ UNCHANGED stdout

ErrorReply(text) == [status |-> "error", error |-> text]

\* The reply main() prints for a line that is not an execute command.
CommandReply(line) ==
    IF ~line.json THEN ErrorReply("Invalid JSON")
    ELSE IF line.action = "setup" THEN [status |-> "ok"]
    ELSE IF line.action = "ping" THEN [status |-> "ok", message |-> "pong"]
    ELSE ErrorReply("Unknown action")

\* A runner that skips a line that is not JSON without a word.
WrittenExceptInvalidJson(line) ==
    IF line.json THEN <<CommandReply(line)>> ELSE <<>>

\* What one turn of the loop prints for a line that is not an execute
\* command.
Written(line) == <<CommandReply(line)>>

\* One turn of `for line in sys.stdin` for a line that is not an execute
\* command: the line is parsed and answered.
RunnerCommand ==
    /\ rpc = "loop"
    /\ LinesRead < MaxLines
    /\ \E line \in Lines :
        /\ ~(line.json /\ line.action = "execute")
        /\ handled' = (IF line.json THEN line.action ELSE "invalid")
        /\ NAMESPACE' = IF line.json /\ line.action = "setup"
                        THEN Put(NAMESPACE, "context", Str("documents"))
                        ELSE NAMESPACE
        /\ IF Written(line) = <<>>
           THEN UNCHANGED <<stdout, capture>>
           ELSE PrintJson(Written(line)[1])
    /\ commands' = commands + 1
    /\ UNCHANGED <<rpc, sys_stdout, code, ip, target, err, return_value,
                   calls, responses, handed>>
    /\ UNCHANGED notRunner

\* An execute command is read: execute_code redirects sys.stdout and
\* sys.stderr and starts exec(code, NAMESPACE).
RunnerExecute ==
    /\ rpc = "loop"
    /\ LinesRead < MaxLines
    /\ \E program \in Programs : code' = program
    /\ handled' = "execute"
    /\ commands' = commands + 1
    /\ ip' = 1
    /\ capture' = <<>>
    /\ err' = None
    /\ sys_stdout' = "capture"
    /\ rpc' = "exec"
    /\ calls' = 0
    /\ responses' = <<>>
    /\ handed' = <<>>
    /\ UNCHANGED <<NAMESPACE, stdout, target, return_value>>
    /\ UNCHANGED notRunner

\* One statement of the program that is not an llm_query call.
RunnerStatement ==
    /\ rpc = "exec"
    /\ err = None
    /\ ip <= Len(code)
    /\ code[ip].op # "query"
    /\ LET stmt == code[ip] IN
       /\ NAMESPACE' =
            IF stmt.op = "bind" THEN Put(NAMESPACE, stmt.name, Str(stmt.arg))
            ELSE IF stmt.op = "return"
            THEN Put(NAMESPACE, "_return_value_", Str(stmt.arg))
            ELSE IF stmt.op = "final" /\ "FINAL" \in DOMAIN NAMESPACE
            THEN Put(NAMESPACE, "_return_value_", FinalAnswer(stmt.arg))
            ELSE IF stmt.op = "final_var" /\ "FINAL_VAR" \in DOMAIN NAMESPACE
            THEN Put(NAMESPACE, "_return_value_", FinalVar(stmt.arg))
            ELSE NAMESPACE
       /\ capture' =
            IF stmt.op = "print" /\ stmt.name \in DOMAIN NAMESPACE
            THEN Append(capture, Str(NAMESPACE[stmt.name].v))
            ELSE capture
       /\ err' =
            IF stmt.op = "raise" THEN "ValueError"
            ELSE IF \/ stmt.op = "print" /\ stmt.name \notin DOMAIN NAMESPACE
                    \/ stmt.op = "final" /\ "FINAL" \notin DOMAIN NAMESPACE
                    \/ stmt.op = "final_var" /\ "FINAL_VAR" \notin DOMAIN NAMESPACE
            THEN "NameError"
            ELSE None
    /\ ip' = ip + 1
    /\ UNCHANGED <<rpc, sys_stdout, stdout, code, target, return_value,
                   handled, commands, calls, responses, handed>>
    /\ UNCHANGED notRunner

\* The program calls llm_query: the request is printed and the call waits
\* in sys.stdin.readline().
RunnerQuery ==
    /\ rpc = "exec"
    /\ err = None
    /\ ip <= Len(code)
    /\ code[ip].op = "query"
    /\ IF "llm_query" \in DOMAIN NAMESPACE
       THEN /\ PrintJson(QueryRequest)
            /\ target' = code[ip].name
            /\ calls' = calls + 1
            /\ rpc' = "readline"
            /\ UNCHANGED <<err, ip>>
       ELSE /\ err' = "NameError"
            /\ ip' = ip + 1
            /\ UNCHANGED <<stdout, capture, target, calls, rpc>>
    /\ UNCHANGED <<NAMESPACE, sys_stdout, code, return_value, handled,
                   commands, responses, handed>>
    /\ UNCHANGED notRunner

\* readline() returns the next line of stdin, whatever it is: llm_query
\* returns the result of an llm_response message and raises on anything
\* else.
RunnerResponse ==
    /\ rpc = "readline"
    /\ LinesRead < MaxLines
    /\ \E line \in Lines :
        /\ responses' = Append(responses, line)
        /\ IF line.json /\ line.action = "llm_response"
           THEN /\ NAMESPACE' = Put(NAMESPACE, target, Str(line.result))
                /\ handed' = Append(handed, line.result)
                /\ UNCHANGED err
           ELSE /\ err' = (IF line.json THEN "RuntimeError"
                                          ELSE "JSONDecodeError")
                /\ UNCHANGED <<NAMESPACE, handed>>
    /\ ip' = ip + 1
    /\ rpc' = "exec"
    /\ UNCHANGED <<sys_stdout, stdout, code, target, capture, return_value,
                   handled, commands, calls>>
    /\ UNCHANGED notRunner

\* execute_code after exec(): `_return_value_` is popped when exec raised
\* nothing.
Popped(namespace, raised) ==
    IF raised = None /\ "_return_value_" \in DOMAIN namespace
    THEN namespace["_return_value_"] ELSE NoneValue

AfterPop(namespace, raised) ==
    IF raised = None /\ "_return_value_" \in DOMAIN namespace
    THEN Pop(namespace, "_return_value_") ELSE namespace

\* The dict execute_code returns, with what main() adds to it when
\* `_return_value_` is (still) in the namespace.
ExecuteResult(namespace, raised, out) ==
    LET base == [status |-> IF raised = None THEN "ok" ELSE "error",
                 stdout |-> out, stderr |-> <<>>,
                 return_value |-> Popped(namespace, raised),
                 error |-> raised]
        left == AfterPop(namespace, raised)
        rv == IF "_return_value_" \in DOMAIN left
              THEN left["_return_value_"] ELSE NoneValue
    IN  IF rv.type = "FinalAnswer"
        THEN [status |-> base.status, stdout |-> base.stdout,
              stderr |-> base.stderr, return_value |-> base.return_value,
              error |-> base.error, final_answer |-> rv.v]
        ELSE IF rv.type = "FinalVar"
        THEN [status |-> base.status, stdout |-> base.stdout,
              stderr |-> base.stderr, return_value |-> base.return_value,
              error |-> base.error, final_var |-> rv.v,
              final_value |-> IF rv.v \in DOMAIN left THEN left[rv.v].v ELSE ""]
        ELSE base

\* json.dumps raises TypeError on an object it has no encoding for.
Serializable(value) == value.type \in {"None", "str"}

\* The program has ended or raised: sys.stdout is restored, the result is
\* built and printed; when json.dumps raises, `except Exception` in main()
\* prints an error reply instead.
RunnerFinish ==
    /\ rpc = "exec"
    /\ err # None \/ ip > Len(code)
    /\ LET reply == ExecuteResult(NAMESPACE, err, capture) IN
       /\ stdout' = Append(stdout, IF Serializable(reply.return_value)
                                   THEN reply ELSE ErrorReply("TypeError"))
       /\ return_value' = reply.return_value
    /\ NAMESPACE' = AfterPop(NAMESPACE, err)
    /\ sys_stdout' = "real"
    /\ rpc' = "loop"
    /\ UNCHANGED <<code, ip, target, capture, err, handled, commands, calls,
                   responses, handed>>
    /\ UNCHANGED notRunner

\* ------------------------------------------- ContainerExecutor._read_line
\* Largest number of bytes the sandbox writes, and of _read_line calls.
MaxPayload == 3
MaxReads == 2

\* Bytes: "\n", a letter, and a byte that no UTF-8 text holds.
Newline == 10
Letter == 97
BadByte == 255
PayloadBytes == {Newline, Letter, BadByte}

\* The header of a frame of the multiplexed stream: stream type 1 (stdout),
\* three zero bytes, the payload length in four bytes, big-endian.
HeaderLen == 8
StdoutStream == 1
StderrStream == 2
Byte == 256
Header(n) == <<StdoutStream, 0, 0, 0, (n \div (Byte * Byte * Byte)) % Byte,
               (n \div (Byte * Byte)) % Byte, (n \div Byte) % Byte, n % Byte>>

Min(a, b) == IF a <= b THEN a ELSE b

\* The payload `bytes` as frames: a frame ends after every position in `cuts`
\* and at the end.
RECURSIVE Framed(_, _, _)
Framed(bytes, cuts, i) ==
    IF i > Len(bytes) THEN <<>>
    ELSE LET end == CHOOSE e \in (cuts \cup {Len(bytes)}) :
                        /\ e >= i
                        /\ \A c \in (cuts \cup {Len(bytes)}) : c >= i => e <= c
         IN  Header(end - i + 1) \o SubSeq(bytes, i, end)
                 \o Framed(bytes, cuts, end + 1)

\* b"\n" in data, and data.split(b"\n", 1)
HasNewline(data) == \E i \in 1..Len(data) : data[i] = Newline
FirstNewline(data) ==
    CHOOSE i \in 1..Len(data) :
        data[i] = Newline /\ \A j \in 1..(i - 1) : data[j] # Newline
BeforeNewline(data) == SubSeq(data, 1, FirstNewline(data) - 1)
AfterNewline(data) == SubSeq(data, FirstNewline(data) + 1, Len(data))

\* bytes.decode(): UTF-8; of the bytes here only BadByte is not text.
Decodable(data) == \A i \in 1..Len(data) : data[i] < 128

\* str.strip(): whitespace off both ends.
Whitespace == {9, 10, 11, 12, 13, 28, 29, 30, 31, 32}
RECURSIVE LStrip(_)
LStrip(text) ==
    IF text # <<>> /\ text[1] \in Whitespace THEN LStrip(Tail(text)) ELSE text
RECURSIVE RStrip(_)
RStrip(text) ==
    IF text # <<>> /\ text[Len(text)] \in Whitespace
    THEN RStrip(SubSeq(text, 1, Len(text) - 1)) ELSE text
Strip(text) == LStrip(RStrip(text))

\* `self._read_buffer[0] in (1, 2) and self._read_buffer[1:4] == b"\x00\x00\x00"`
LooksLikeHeader(data) ==
    /\ data[1] \in {StdoutStream, StderrStream}
    /\ SubSeq(data, 2, 4) = <<0, 0, 0>>

\* int.from_bytes(self._read_buffer[4:8], "big")
PayloadLen(data) ==
    ((data[5] * Byte + data[6]) * Byte + data[7]) * Byte + data[8]

\* A started executor whose container has written `payload`, framed in any
\* way, and no _read_line call made yet.
LineInit ==
    /\ \E n \in 1..MaxPayload :
         /\ payload \in [1..n -> PayloadBytes]
         /\ \E cuts \in SUBSET (1..(n - 1)) : wire = Framed(payload, cuts, 1)
    /\ read_buffer = <<>>
    /\ lpc = "idle"
    /\ returned = <<>>

\* No stream to read in the other specifications.
LineUnused ==
    /\ wire = <<>>
    /\ payload = <<>>
    /\ read_buffer = <<>>
    /\ lpc = "off"
    /\ returned = <<>>

\* How a _read_line call ends: it returns decoded text, or it raises.
LineReturn(data, atEOF) ==
    [status |-> "returned", line |-> Strip(data), error |-> None, eof |-> atEOF,
     raw |-> data]
LineRaise(exception, data) ==
    [status |-> "raised", line |-> <<>>, error |-> exception, eof |-> FALSE,
     raw |-> data]

\* `return line.decode().strip()`
Decoded(data, atEOF) ==
    IF Decodable(data) THEN LineReturn(data, atEOF)
    ELSE LineRaise("UnicodeDecodeError", data)

\* `line, self._read_buffer = self._read_buffer.split(b"\n", 1)` and the
\* return of the decoded line.
ReturnBufferedLine ==
    /\ returned' = Append(returned, Decoded(BeforeNewline(read_buffer), FALSE))
    /\ read_buffer' = AfterNewline(read_buffer)
    /\ lpc' = "idle"

\* recv() gave b"": the buffer is decoded and returned, then emptied.
ReturnAtEOF ==
    /\ returned' = Append(returned, Decoded(read_buffer, TRUE))
    /\ read_buffer' = IF Decodable(read_buffer) THEN <<>> ELSE read_buffer
    /\ lpc' = "idle"

\* recv() raised socket.timeout, which leaves the call.
TimedOut ==
    /\ returned' = Append(returned, LineRaise("socket.timeout", <<>>))
    /\ lpc' = "idle"
    /\ UNCHANGED read_buffer

\* recv(4096) gives the next bytes of the stream, any number of them.
Received(k) ==
    /\ k \in 1..Len(wire)
    /\ read_buffer' = read_buffer \o SubSeq(wire, 1, k)
    /\ wire' = SubSeq(wire, k + 1, Len(wire))

\* _read_line is called.
ReadLineCall ==
    /\ lpc = "idle"
    /\ Len(returned) < MaxReads
    /\ lpc' = "top"
    /\ UNCHANGED <<wire, payload, read_buffer, returned>>
    /\ UNCHANGED notLine

\* The top of `while True`: a line that is in the buffer is returned.
ReadLineTop ==
    /\ lpc = "top"
    /\ IF HasNewline(read_buffer)
       THEN ReturnBufferedLine
       ELSE /\ lpc' = "header"
            /\ UNCHANGED <<read_buffer, returned>>
    /\ UNCHANGED <<wire, payload>>
    /\ UNCHANGED notLine

\* `while len(self._read_buffer) < 8`: one recv(); with 8 bytes in the
\* buffer, the test for a header, and in raw mode the test for a line.
ReadLineHeader ==
    /\ lpc = "header"
    /\ IF Len(read_buffer) < HeaderLen
       THEN \/ \E k \in 1..Len(wire) :
                 /\ Received(k)
                 /\ UNCHANGED <<lpc, returned>>
            \/ /\ wire = <<>>
               /\ ReturnAtEOF
               /\ UNCHANGED wire
            \/ /\ TimedOut
               /\ UNCHANGED wire
       ELSE /\ IF LooksLikeHeader(read_buffer)
               THEN /\ lpc' = "payload"
                    /\ UNCHANGED <<read_buffer, returned>>
               ELSE IF HasNewline(read_buffer)
               THEN ReturnBufferedLine
               ELSE /\ lpc' = "raw"
                    /\ UNCHANGED <<read_buffer, returned>>
            /\ UNCHANGED wire
    /\ UNCHANGED payload
    /\ UNCHANGED notLine

\* The frame is taken out of the buffer: a payload with a newline gives the
\* line, and what follows the newline goes back in front of the buffer; a
\* payload without one goes back in front of the buffer as a whole.
ExtractFrame ==
    LET payload_len == PayloadLen(read_buffer)
        body == SubSeq(read_buffer, HeaderLen + 1,
                       Min(HeaderLen + payload_len, Len(read_buffer)))
        rest == SubSeq(read_buffer, HeaderLen + payload_len + 1, Len(read_buffer))
    IN  IF HasNewline(body)
        THEN /\ returned' = Append(returned, Decoded(BeforeNewline(body), FALSE))
             /\ read_buffer' = AfterNewline(body) \o rest
             /\ lpc' = "idle"
        ELSE /\ read_buffer' = body \o rest
             /\ lpc' = "top"
             /\ UNCHANGED returned

\* `while len(self._read_buffer) < 8 + payload_len`: one recv(), where b""
\* breaks out of the loop; then the frame is extracted.
ReadLinePayload ==
    /\ lpc = "payload"
    /\ IF Len(read_buffer) < HeaderLen + PayloadLen(read_buffer)
       THEN \/ \E k \in 1..Len(wire) :
                 /\ Received(k)
                 /\ UNCHANGED <<lpc, returned>>
            \/ /\ wire = <<>>
               /\ ExtractFrame
               /\ UNCHANGED wire
            \/ /\ TimedOut
               /\ UNCHANGED wire
       ELSE /\ ExtractFrame
            /\ UNCHANGED wire
    /\ UNCHANGED payload
    /\ UNCHANGED notLine

\* Raw mode without a line in the buffer: one recv(), then back to the top.
ReadLineRaw ==
    /\ lpc = "raw"
    /\ \/ \E k \in 1..Len(wire) :
            /\ Received(k)
            /\ lpc' = "top"
            /\ UNCHANGED returned
       \/ /\ wire = <<>>
          /\ ReturnAtEOF
          /\ UNCHANGED wire
       \/ /\ TimedOut
          /\ UNCHANGED wire
    /\ UNCHANGED payload
    /\ UNCHANGED notLine

\* ----------------------------------------------------------- llm/retry.py
\* Largest max_retries a RetryConfig is given.
MaxRetries == 3

\* Delays are in milliseconds and jitter is in percent, so that the
\* arithmetic of delay_for_attempt stays in the integers.
DefaultBaseDelay == 1000
DefaultMaxDelay == 60000
DefaultExponentialBase == 2
DefaultJitter == 10
\* max_delay=5.0 of test_delay_respects_max, and a steeper base.
TestMaxDelay == 5000
SteepExponentialBase == 3
Percent == 100

\* The configurations: max_retries is a count, delays are positive, and
\* exponential_base is above 1, as befits a backoff.
RetryConfigs ==
    [max_retries : 0..MaxRetries,
     base_delay : {DefaultBaseDelay},
     max_delay : {TestMaxDelay, DefaultMaxDelay},
     exponential_base : {DefaultExponentialBase, SteepExponentialBase},
     jitter : {0, DefaultJitter}]

\* exceptions.py: what fn may raise, besides returning.
RetryableErrors == {"RateLimitError", "TransientError"}
FnErrors == RetryableErrors \cup {"PermanentError", "ValueError"}
\* The exception object fn raised in call number a.
Exc(type, a) == [type |-> type, call |-> a]
NoError == [type |-> None, call |-> 0]

RECURSIVE Pow(_, _)
Pow(b, n) == IF n = 0 THEN 1 ELSE b * Pow(b, n - 1)

\* A delay_for_attempt that forgets max_delay.
DelayUncapped(cfg, a) == cfg.base_delay * Pow(cfg.exponential_base, a)

\* `delay = min(self.base_delay * (self.exponential_base**attempt), self.max_delay)`
Delay(cfg, a) ==
    Min(cfg.base_delay * Pow(cfg.exponential_base, a), cfg.max_delay)

\* random.uniform(lo, hi): some number between the two, ends included.
Uniform(lo, hi) == {lo, (lo + hi) \div 2, hi}

\* delay_for_attempt: the values it may return.
DelayForAttempt(cfg, a) ==
    LET delay == Delay(cfg, a)
        jitter_range == (delay * cfg.jitter) \div Percent
    IN  {delay + u : u \in Uniform(-jitter_range, jitter_range)}

\* A loop whose last turn is missing.
AttemptsOneFewer(cfg) == 0..(cfg.max_retries - 1)

\* `for attempt in range(config.max_retries + 1)`
Attempts(cfg) == 0..cfg.max_retries

\* A loop that treats PermanentError like the errors it retries.
CaughtForRetryToo(type) == type \in RetryableErrors \cup {"PermanentError"}

\* `except (RateLimitError, TransientError) as e`
CaughtForRetry(type) == type \in RetryableErrors

\* A loop that backs off after its last attempt too.
MayRetryAlways(cfg, a) == TRUE

\* `if attempt < config.max_retries`
MayRetry(cfg, a) == a < cfg.max_retries

FnCall(a, type) == [kind |-> "fn", attempt |-> a, err |-> Exc(type, a), delay |-> 0]
OnRetryCall(e, a) == [kind |-> "on_retry", attempt |-> a, err |-> e, delay |-> 0]
SleepCall(a, d) == [kind |-> "sleep", attempt |-> a, err |-> NoError, delay |-> d]

Running == [status |-> "running", error |-> NoError]

\* retry_with_backoff(fn, config, on_retry) is called.
RetryInit ==
    /\ config \in RetryConfigs
    /\ on_retry \in {None, "callback"}
    /\ attempt = 0
    /\ last_error = NoError
    /\ wpc = "loop"
    /\ events = <<>>
    /\ ended = Running

\* No retry_with_backoff call in the other specifications.
RetryUnused ==
    /\ config = [max_retries |-> 0, base_delay |-> DefaultBaseDelay,
                 max_delay |-> DefaultMaxDelay,
                 exponential_base |-> DefaultExponentialBase,
                 jitter |-> DefaultJitter]
    /\ on_retry = None
    /\ attempt = 0
    /\ last_error = NoError
    /\ wpc = "off"
    /\ events = <<>>
    /\ ended = Running

\* One turn of the loop up to the sleep: fn is called; it returns, or it
\* raises and the exception is propagated or recorded.
RetryCall ==
    /\ wpc = "loop"
    /\ attempt \in Attempts(config)
    /\ \E type \in FnErrors \cup {None} :
        /\ events' = Append(events, FnCall(attempt, type))
        /\ IF type = None
           THEN /\ ended' = [status |-> "returned", error |-> NoError]
                /\ wpc' = "done"
                /\ UNCHANGED <<attempt, last_error>>
           ELSE IF ~CaughtForRetry(type)
           THEN /\ ended' = [status |-> "raised", error |-> Exc(type, attempt)]
                /\ wpc' = "done"
                /\ UNCHANGED <<attempt, last_error>>
           ELSE /\ last_error' = Exc(type, attempt)
                /\ IF MayRetry(config, attempt)
                   THEN /\ wpc' = (IF on_retry # None THEN "on_retry" ELSE "sleep")
                        /\ UNCHANGED attempt
                   ELSE /\ attempt' = attempt + 1
                        /\ UNCHANGED wpc
                /\ UNCHANGED ended
    /\ UNCHANGED <<config, on_retry>>
    /\ UNCHANGED notRetry

\* `on_retry(e, attempt)`
RetryNotify ==
    /\ wpc = "on_retry"
    /\ events' = Append(events, OnRetryCall(last_error, attempt))
    /\ wpc' = "sleep"
    /\ UNCHANGED <<config, on_retry, attempt, last_error, ended>>
    /\ UNCHANGED notRetry

\* `time.sleep(config.delay_for_attempt(attempt))`, and the next turn.
RetrySleep ==
    /\ wpc = "sleep"
    /\ \E d \in DelayForAttempt(config, attempt) :
        events' = Append(events, SleepCall(attempt, d))
    /\ attempt' = attempt + 1
    /\ wpc' = "loop"
    /\ UNCHANGED <<config, on_retry, last_error, ended>>
    /\ UNCHANGED notRetry

\* The loop is over: the recorded error is raised.
RetryExhausted ==
    /\ wpc = "loop"
    /\ attempt \notin Attempts(config)
    /\ ended' = [status |-> "raised",
                 error |-> IF last_error # NoError THEN last_error
                           ELSE Exc("RuntimeError", attempt)]
    /\ wpc' = "done"
    /\ UNCHANGED <<config, on_retry, attempt, last_error, events>>
    /\ UNCHANGED notRetry

\* --------------------------------------------------------------- RLMEngine
\* RLMEngine.query(): the orchestrator loop, its trace and its executor.
\* The outer model, the executor and the verification steps answer as the
\* mocks of tests/unit/rlm/test_engine.py do: any of their outcomes.

\* max_iterations of the engines considered.
MaxIterations == 2

\* RLMEngine(model, pool=..., max_iterations=..., verify_citations=..., verify=...)
EngineConfigs ==
    [pool : BOOLEAN, max_iterations : 1..MaxIterations,
     verify_citations : BOOLEAN, verify : BOOLEAN]

\* What llm.complete gives the loop: a reply with a fenced code block, a reply
\* without one, or an exception that the retry layer lets through.
ModelOutcomes == {"code", "no_code", "PermanentError", "KeyboardInterrupt"}
ModelErrors == {"PermanentError", "KeyboardInterrupt"}

\* QueryResult.answer: the model's FINAL answer or one of the synthetic ones.
FinalText == "final answer"
ExecutorDiedText == "[executor died]"
MaxIterationsText == "[max iterations exceeded]"

\* The lines of a trace file.
HeaderLine == [type |-> "header", step |-> None, iteration |-> 0, error |-> FALSE,
               status |-> None]
StepLine(s) == [type |-> "step", step |-> s.step, iteration |-> s.iteration,
                error |-> s.error, status |-> None]
SummaryLine(status) == [type |-> "summary", step |-> None, iteration |-> 0,
                        error |-> FALSE, status |-> status]

\* A TraceStep of type `step`, recorded in iteration i; error: it records a failure.
TraceStep(step, i, error) == [step |-> step, iteration |-> i, error |-> error]

NoQueryResult == [answer |-> None, verification |-> None,
                  semantic_verification |-> None, raised |-> None]

PoolCall(op, e) == [op |-> op, executor |-> e]

\* A pool after start(): `size` executors warm.
PoolStarted ==
    /\ size \in 0..MaxSize
    /\ available = [i \in 1..size |-> i]
    /\ in_use = {}
    /\ started = TRUE
    /\ lock = NoThread
    /\ pc = [t \in Threads |-> "idle"]
    /\ local = [t \in Threads |-> NoLocal]
    /\ last = [op |-> "start", result |-> "started", executor |-> NoExecutor]
    /\ created = size
    /\ running = 1..size
    /\ warmed = size
    /\ discarded = {}
    /\ dropped = {}
    /\ peak = 0

\* The state of a query() that has not begun.
QueryInit ==
    /\ iteration = 0
    /\ has_final = FALSE
    /\ current = NoExecutor
    /\ is_alive = FALSE
    /\ qpc = "starting"
    /\ llm_calls = 0
    /\ trace = <<>>
    /\ trace_file = <<>>
    /\ query_result = NoQueryResult
    /\ pool_calls = <<>>

EngineInit ==
    /\ engine \in EngineConfigs
    /\ IF engine.pool THEN PoolStarted ELSE (PoolInit /\ size = 0)
    /\ QueryInit
    /\ dirty = {}
    /\ again = FALSE

\* No engine in the other specifications.
EngineUnused ==
    /\ engine = [pool |-> FALSE, max_iterations |-> 1,
                 verify_citations |-> FALSE, verify |-> FALSE]
    /\ QueryInit
    /\ dirty = {}
    /\ again = FALSE

\* A trace that keeps the steps in memory and writes none of them.
RecordedInMemoryOnly(steps) ==
    /\ trace' = trace \o steps
    /\ UNCHANGED trace_file

\* Trace.add_step together with IncrementalTraceWriter.write_step: the steps
\* are kept in memory and appended to the file as they happen.
Recorded(steps) ==
    /\ trace' = trace \o steps
    /\ trace_file' = trace_file \o [k \in 1..Len(steps) |-> StepLine(steps[k])]

\* What the pool part of the state is left as by a step that calls neither
\* the pool nor an executor's start() / stop().
PoolUntouched ==
    UNCHANGED <<available, in_use, created, running, discarded, dropped, peak>>

\* The pool variables no call of a query changes.
PoolFixed == UNCHANGED <<size, started, lock, pc, local, last, warmed>>

\* The executor pool.acquire() returns when `idle` are the available ones.
AcquiredFrom(idle) == IF idle # <<>> THEN Head(idle) ELSE NewExecutor
Acquired == AcquiredFrom(available)

\* pool.acquire() as one call of the query's thread.
Acquire ==
    /\ ~AcquireRefused
    /\ in_use' = InUseAfterAcquire(Acquired)
    /\ peak' = Max(peak, Cardinality(InUseAfterAcquire(Acquired)))
    /\ IF available # <<>>
       THEN /\ available' = Tail(available)
            /\ UNCHANGED <<created, running>>
       ELSE /\ created' = NewExecutor
            /\ running' = running \cup {NewExecutor}
            /\ UNCHANGED available

\* The executor of the query: acquired from the pool, or constructed and
\* started by the engine.
Obtain ==
    /\ IF engine.pool
       THEN /\ Acquire
            /\ current' = Acquired
            /\ pool_calls' = Append(pool_calls, PoolCall("acquire", Acquired))
            /\ UNCHANGED <<discarded, dropped>>
       ELSE /\ created' = NewExecutor
            /\ running' = running \cup {NewExecutor}
            /\ current' = NewExecutor
            /\ pool_calls' = Append(pool_calls, PoolCall("start", NewExecutor))
            /\ UNCHANGED <<available, in_use, discarded, dropped, peak>>
    /\ is_alive' = TRUE

\* query() begins: the header line is written at once, and the executor is
\* obtained.
EngineStart ==
    /\ qpc = "starting"
    /\ trace_file' = <<HeaderLine>>
    /\ Obtain
    /\ qpc' = "iterating"
    /\ UNCHANGED <<engine, iteration, has_final, llm_calls, trace,
                   query_result, dirty, again>>
    /\ PoolFixed
    /\ UNCHANGED notEngine

\* A loop that never runs out of iterations.
LoopContinuesForever == TRUE

\* The loop goes on: at most max_iterations passes.
LoopContinues == iteration < engine.max_iterations

\* Step 1 and 2 of an iteration: the outer model is called; its reply is
\* recorded; a reply without code gets a hint and the next iteration begins.
EngineModelCall ==
    /\ qpc = "iterating"
    /\ LoopContinues
    /\ llm_calls' = llm_calls + 1
    /\ \E reply \in ModelOutcomes :
          IF reply \in ModelErrors
          THEN /\ qpc' = "raised"
               /\ query_result' = [query_result EXCEPT !.raised = reply]
               /\ UNCHANGED <<iteration, trace, trace_file>>
          ELSE IF reply = "no_code"
          THEN /\ Recorded(<<TraceStep("CODE_GENERATED", iteration, FALSE),
                             TraceStep("CODE_OUTPUT", iteration, FALSE)>>)
               /\ iteration' = iteration + 1
               /\ UNCHANGED <<qpc, query_result>>
          ELSE /\ Recorded(<<TraceStep("CODE_GENERATED", iteration, FALSE)>>)
               /\ qpc' = "execute"
               /\ UNCHANGED <<iteration, query_result>>
    /\ UNCHANGED <<engine, has_final, current, is_alive, pool_calls, dirty,
                   again>>
    /\ PoolUntouched /\ PoolFixed
    /\ UNCHANGED notEngine

\* An engine that goes on with the loop when its only executor died.
AfterExecuteIgnoresDeath(final, alive) ==
    IF final THEN "final"
    ELSE IF ~alive /\ engine.pool THEN "recover"
    ELSE "next"

\* Steps 4 to 6 of an iteration: what follows an execute that gave (or not) a
\* final answer and left the executor alive (or not).
AfterExecute(final, alive) ==
    IF final THEN "final"
    ELSE IF ~alive /\ ~engine.pool THEN "executor_died"
    ELSE IF ~alive /\ engine.pool THEN "recover"
    ELSE "next"

\* Step 3 to 5, 7 and 8: executor.execute(code), the output is recorded, then
\* the loop ends on a final answer or on a dead executor without a pool.
EngineExecute ==
    /\ qpc = "execute"
    /\ \E final \in BOOLEAN, alive \in BOOLEAN :
          \* a reply that carries a final answer was read without an error
          /\ final => alive
          /\ is_alive' = alive
          /\ LET after == AfterExecute(final, alive) IN
             /\ Recorded(<<TraceStep("CODE_OUTPUT", iteration, FALSE)>>
                         \o IF after = "final"
                            THEN <<TraceStep("FINAL_ANSWER", iteration, FALSE)>>
                            ELSE <<>>)
             /\ has_final' = (after = "final")
             /\ qpc' = CASE after = "final" -> "verify"
                         [] after = "executor_died" -> "finishing"
                         [] after = "recover" -> "recover"
                         [] OTHER -> "iterating"
             /\ iteration' = IF after = "next" THEN iteration + 1 ELSE iteration
             /\ query_result' =
                   CASE after = "final" ->
                           [query_result EXCEPT !.answer = FinalText]
                     [] after = "executor_died" ->
                           [query_result EXCEPT !.answer = ExecutorDiedText]
                     [] OTHER -> query_result
    /\ pool_calls' = Append(pool_calls, PoolCall("execute", current))
    /\ dirty' = dirty \cup {current}
    /\ UNCHANGED <<engine, current, llm_calls, again>>
    /\ PoolUntouched /\ PoolFixed
    /\ UNCHANGED notEngine

\* An engine that hands the dead executor back with pool.release().
DeadExecutorReleased(e) ==
    [in_use |-> InUseAfterRelease(e),
     available |-> IF e \in in_use THEN Append(available, e) ELSE available,
     discarded |-> discarded, call |-> "release"]

\* What pool.discard(e) leaves of the pool, for the dead executor e.
DeadExecutorDropped(e) ==
    [in_use |-> InUseAfterDiscard(e), available |-> available,
     discarded |-> discarded \cup {e}, call |-> "discard"]

\* Step 6: the dead executor is discarded from the pool and stopped, a fresh
\* one is acquired and the loop goes on with the next iteration.
EngineRecover ==
    /\ qpc = "recover"
    /\ LET pool == DeadExecutorDropped(current)
           fresh == AcquiredFrom(pool.available)
       IN /\ discarded' = pool.discarded
          /\ dropped' = dropped \cup (in_use \ pool.in_use)
          /\ in_use' = pool.in_use \cup {fresh}
          /\ peak' = Max(peak, Cardinality(pool.in_use \cup {fresh}))
          /\ IF pool.available # <<>>
             THEN /\ available' = Tail(pool.available)
                  /\ created' = created
                  /\ running' = running \ {current}
             ELSE /\ created' = NewExecutor
                  /\ running' = (running \ {current}) \cup {NewExecutor}
                  /\ available' = pool.available
          /\ current' = fresh
          /\ pool_calls' = pool_calls \o <<PoolCall(pool.call, current),
                                           PoolCall("stop", current),
                                           PoolCall("acquire", fresh)>>
    /\ is_alive' = TRUE
    /\ iteration' = iteration + 1
    /\ qpc' = "iterating"
    /\ UNCHANGED <<engine, has_final, llm_calls, trace, trace_file,
                   query_result, dirty, again>>
    /\ PoolFixed
    /\ UNCHANGED notEngine

\* Step 7: the iterations are used up; the answer is the synthetic one.
EngineMaxIterations ==
    /\ qpc = "iterating"
    /\ ~LoopContinues
    /\ query_result' = [query_result EXCEPT !.answer = MaxIterationsText]
    /\ qpc' = "finishing"
    /\ UNCHANGED <<engine, iteration, has_final, current, is_alive, llm_calls,
                   trace, trace_file, pool_calls, dirty, again>>
    /\ PoolUntouched /\ PoolFixed
    /\ UNCHANGED notEngine

\* A verification whose failure reaches the result.
VerificationKeepsFailure(ok) == IF ok THEN "verified" ELSE "failed"

\* QueryResult.verification / .semantic_verification after a verification that
\* worked (ok) or failed: a failure leaves None.
Verification(ok) == IF ok THEN "verified" ELSE None

\* Mechanical citation verification: a program run in the same executor; a
\* failed execution or unparseable output is recorded and leaves None.
EngineVerify ==
    /\ qpc = "verify"
    /\ IF engine.verify_citations
       THEN \E ok \in {TRUE, FALSE} :
               /\ ok => is_alive
               /\ Recorded(<<TraceStep("VERIFICATION", iteration, ~ok)>>)
               /\ query_result' =
                     [query_result EXCEPT !.verification = Verification(ok)]
               /\ pool_calls' = Append(pool_calls, PoolCall("execute", current))
       ELSE UNCHANGED <<trace, trace_file, query_result, pool_calls>>
    /\ qpc' = "semantic"
    /\ UNCHANGED <<engine, iteration, has_final, current, is_alive, llm_calls,
                   dirty, again>>
    /\ PoolUntouched /\ PoolFixed
    /\ UNCHANGED notEngine

\* Semantic verification: sub-model calls whose replies are parsed; a reply
\* that cannot be parsed is recorded and leaves None.
EngineSemantic ==
    /\ qpc = "semantic"
    /\ IF engine.verify
       THEN \E ok \in {TRUE, FALSE} :
               /\ Recorded(<<TraceStep("SEMANTIC_VERIFICATION", iteration, ~ok)>>)
               /\ query_result' =
                     [query_result EXCEPT
                         !.semantic_verification = Verification(ok)]
       ELSE UNCHANGED <<trace, trace_file, query_result>>
    /\ qpc' = "finishing"
    /\ UNCHANGED <<engine, iteration, has_final, current, is_alive, llm_calls,
                   pool_calls, dirty, again>>
    /\ PoolUntouched /\ PoolFixed
    /\ UNCHANGED notEngine

\* An engine that releases without resetting the namespace.
ResetSkipped(e) == dirty

\* The namespaces still holding a query's variables after a successful
\* executor.reset_namespace() of e.
ResetNamespace(e) == dirty \ {e}

\* The end of every query(): with a pool, reset_namespace() and then
\* pool.release(executor), or a discard when the reset failed; without a
\* pool, executor.stop().
GiveBack ==
    IF engine.pool
    THEN \E reset \in BOOLEAN :
            /\ reset => is_alive
            /\ IF reset
               THEN /\ dirty' = ResetNamespace(current)
                    /\ in_use' = InUseAfterRelease(current)
                    /\ available' = IF current \in in_use
                                    THEN Append(available, current)
                                    ELSE available
                    /\ pool_calls' = pool_calls \o
                          <<PoolCall("reset_namespace", current),
                            PoolCall("release", current)>>
                    /\ UNCHANGED <<discarded, dropped>>
               ELSE /\ in_use' = InUseAfterDiscard(current)
                    /\ discarded' = discarded \cup {current}
                    /\ dropped' = dropped \cup (in_use \ InUseAfterDiscard(current))
                    /\ pool_calls' = pool_calls \o
                          <<PoolCall("reset_namespace", current),
                            PoolCall("discard", current)>>
                    /\ UNCHANGED <<available, dirty>>
            /\ UNCHANGED <<created, running, peak>>
    ELSE /\ running' = running \ {current}
         /\ pool_calls' = Append(pool_calls, PoolCall("stop", current))
         /\ UNCHANGED <<available, in_use, created, discarded, dropped, peak,
                        dirty>>

\* The status of the summary line of a query that returns `answer`.
SummaryStatus(answer) == IF answer = FinalText THEN "success" ELSE "error"

\* query() returns: the summary line is written and the executor given back.
EngineFinish ==
    /\ qpc = "finishing"
    /\ trace_file' = Append(trace_file, SummaryLine(SummaryStatus(query_result.answer)))
    /\ GiveBack
    /\ current' = NoExecutor
    /\ qpc' = "done"
    /\ is_alive' = FALSE
    /\ UNCHANGED <<engine, iteration, has_final, llm_calls, trace,
                   query_result, again>>
    /\ PoolFixed
    /\ UNCHANGED notEngine

\* A writer that leaves the file of an interrupted query without a summary.
InterruptedLinesNone == <<>>

\* The lines written when an exception leaves query().
InterruptedLines == <<SummaryLine("interrupted")>>

\* An exception leaves query(): the summary line says so, the executor is
\* given back and the exception reaches the caller.
EngineInterrupted ==
    /\ qpc = "raised"
    /\ trace_file' = trace_file \o InterruptedLines
    /\ GiveBack
    /\ current' = NoExecutor
    /\ qpc' = "done"
    /\ is_alive' = FALSE
    /\ UNCHANGED <<engine, iteration, has_final, llm_calls, trace,
                   query_result, again>>
    /\ PoolFixed
    /\ UNCHANGED notEngine

\* The next query() on the same engine, with the same pool.
EngineQueryAgain ==
    /\ qpc = "done"
    /\ ~again
    /\ again' = TRUE
    /\ iteration' = 0
    /\ has_final' = FALSE
    /\ qpc' = "starting"
    /\ llm_calls' = 0
    /\ trace' = <<>>
    /\ trace_file' = <<>>
    /\ query_result' = NoQueryResult
    /\ pool_calls' = <<>>
    /\ UNCHANGED <<engine, current, is_alive, dirty>>
    /\ PoolUntouched /\ PoolFixed
    /\ UNCHANGED notEngine

\* ------------------------------------------------- RLMEngine._handle_llm_query
\* Texts are sequences of tokens: a tag, a placeholder, a newline or a word.
\* Longest subcall.md and longest content argument considered.
MaxTemplate == 4
MaxContent == 2

OpenTag == "<untrusted_document_content>"
CloseTag == "</untrusted_document_content>"
InstructionHole == "{instruction}"
ContentHole == "{content}"

\* What a subcall.md may be made of, and what a document may contain: a
\* document can hold the tags themselves.
TemplateTokens == {OpenTag, CloseTag, InstructionHole, ContentHole, "word"}
ContentTokens == {OpenTag, CloseTag, "doc"}

SeqsUpTo(tokens, n) == UNION {[1..k -> tokens] : k \in 0..n}

\* The placeholders a prompt file may hold, and one no schema knows.
Placeholders ==
    {"{doc_count}", "{total_chars}", "{doc_sizes_list}", "{max_subcall_chars}",
     InstructionHole, ContentHole, "{findings}", "{documents}",
     "{previous_results}", "{other}"}

\* extract_placeholders(text)
ExtractPlaceholders(text) == Range(text) \cap Placeholders

\* validate_prompt("subcall.md", text): the required placeholders and both
\* tags are there.
ValidSubcallTemplate(text) ==
    /\ {InstructionHole, ContentHole} \subseteq ExtractPlaceholders(text)
    /\ OpenTag \in Range(text)
    /\ CloseTag \in Range(text)

SubcallTemplates == {t \in SeqsUpTo(TemplateTokens, MaxTemplate) : ValidSubcallTemplate(t)}

\* The instruction argument of llm_query.
Instruction == <<"summarize">>

\* A wrapper that passes the content on as it is.
WrapSubcallContentLeftOut(content) == content

\* wrap_subcall_content(content)
WrapSubcallContent(content) == <<OpenTag, "\n">> \o content \o <<"\n", CloseTag>>

\* PromptLoader.render_subcall_prompt(instruction, content): every hole of the
\* template is replaced by its argument.
RECURSIVE RenderSubcallPrompt(_, _, _)
RenderSubcallPrompt(text, instruction, content) ==
    IF text = <<>> THEN <<>>
    ELSE (CASE Head(text) = InstructionHole -> instruction
            [] Head(text) = ContentHole -> content
            [] OTHER -> <<Head(text)>>)
         \o RenderSubcallPrompt(Tail(text), instruction, content)

NoPrompt == <<>>

\* RLMEngine(...) with a validated subcall.md and a content limit.
SubcallInit ==
    /\ subcall_template \in SubcallTemplates
    /\ max_subcall_content_chars \in 1..MaxContent
    /\ sub_content = <<>>
    /\ sub_prompt = NoPrompt
    /\ sub_outcome = "none"

\* No llm_query in the other specifications.
SubcallUnused ==
    /\ subcall_template = <<OpenTag, ContentHole, CloseTag, InstructionHole>>
    /\ max_subcall_content_chars = 1
    /\ sub_content = <<>>
    /\ sub_prompt = NoPrompt
    /\ sub_outcome = "none"

\* _handle_llm_query(instruction, content, ...): content over the limit raises
\* SubcallContentError before any sub-model call; otherwise the content is
\* wrapped, the prompt rendered and sent to the sub-model.
HandleLLMQuery ==
    /\ \E content \in SeqsUpTo(ContentTokens, MaxContent) :
          /\ sub_content' = content
          /\ IF Len(content) > max_subcall_content_chars
             THEN /\ sub_outcome' = "SubcallContentError"
                  /\ sub_prompt' = NoPrompt
             ELSE /\ sub_outcome' = "response"
                  /\ sub_prompt' = RenderSubcallPrompt(subcall_template, Instruction,
                                                       WrapSubcallContent(content))
    /\ UNCHANGED <<subcall_template, max_subcall_content_chars>>
    /\ UNCHANGED notSubcall

\* -------------------------------------- extract_citations and extract_quotes
\* An answer is a sequence of tokens; longest answer considered.
MaxText == 6

\* Tokens of answers with citations: the word Doc, a blank, two asterisks, the
\* digits 1 and 2 (a run of digits is a number), `context[` and `]`.
CitationTokens == {"Doc", " ", "**", "1", "2", "context[", "]"}
Digits == {"1", "2"}
DigitValue(d) == IF d = "1" THEN 1 ELSE 2
Decimal == 10

\* The token at position p, or the end of the text.
EndOfText == ""
At(text, p) == IF p \in 1..Len(text) THEN text[p] ELSE EndOfText

\* \w matches the first / the last character of the token.
WordStart(tok) == tok \in Digits \cup {"Doc", "context["}
WordEnd(tok) == tok \in Digits \cup {"Doc"}

\* \b before a word, and (?<!\w): no word character ends just before p.
NoWordBefore(text, p) == ~WordEnd(At(text, p - 1))

\* \d+ and \s+ from position p: the position after the longest run.
RECURSIVE DigitsEnd(_, _)
DigitsEnd(text, p) ==
    IF At(text, p) \in Digits THEN DigitsEnd(text, p + 1) ELSE p

RECURSIVE SpacesEnd(_, _)
SpacesEnd(text, p) ==
    IF At(text, p) = " " THEN SpacesEnd(text, p + 1) ELSE p

\* int(match.group(1)) for the digits text[from..to-1]
RECURSIVE IntOf(_, _, _)
IntOf(text, from, to) ==
    IF to <= from THEN 0
    ELSE IntOf(text, from, to - 1) * Decimal + DigitValue(text[to - 1])

NoMatch == [found |-> FALSE, stop |-> 0, id |-> 0]
MatchOf(text, from, to, stop) ==
    [found |-> TRUE, stop |-> stop, id |-> IntOf(text, from, to)]

\* _CITATION_PATTERNS[0]: \bDoc\s+\*\*(\d+)\*\* matched at p
DocBoldPattern(text, p) ==
    LET s == SpacesEnd(text, p + 1)
        d == DigitsEnd(text, s + 1)
    IN IF /\ At(text, p) = "Doc" /\ NoWordBefore(text, p)
          /\ s > p + 1 /\ At(text, s) = "**"
          /\ d > s + 1 /\ At(text, d) = "**"
       THEN MatchOf(text, s + 1, d, d + 1)
       ELSE NoMatch

\* _CITATION_PATTERNS[1]: \bDoc\s+(\d+) matched at p
DocPattern(text, p) ==
    LET s == SpacesEnd(text, p + 1)
        d == DigitsEnd(text, s)
    IN IF /\ At(text, p) = "Doc" /\ NoWordBefore(text, p)
          /\ s > p + 1 /\ d > s
       THEN MatchOf(text, s, d, d)
       ELSE NoMatch

\* _CITATION_PATTERNS[2]: \bcontext\[(\d+)\] matched at p
ContextPattern(text, p) ==
    LET d == DigitsEnd(text, p + 1)
    IN IF /\ At(text, p) = "context[" /\ NoWordBefore(text, p)
          /\ d > p + 1 /\ At(text, d) = "]"
       THEN MatchOf(text, p + 1, d, d + 1)
       ELSE NoMatch

\* _CITATION_PATTERNS[3]: (?<!\w)\*\*(\d+)\*\*(?!\w) matched at p
BoldPattern(text, p) ==
    LET d == DigitsEnd(text, p + 1)
    IN IF /\ At(text, p) = "**" /\ NoWordBefore(text, p)
          /\ d > p + 1 /\ At(text, d) = "**"
          /\ ~WordStart(At(text, d + 1))
       THEN MatchOf(text, p + 1, d, d + 1)
       ELSE NoMatch

CitationPatterns == 1..4
CitationMatch(pattern, text, p) ==
    CASE pattern = 1 -> DocBoldPattern(text, p)
      [] pattern = 2 -> DocPattern(text, p)
      [] pattern = 3 -> ContextPattern(text, p)
      [] pattern = 4 -> BoldPattern(text, p)

\* pattern.finditer(text) from position p on: the matches from left to right,
\* none overlapping the one before, as (match.start(), int(match.group(1))).
RECURSIVE CitationFinditer(_, _, _)
CitationFinditer(pattern, text, p) ==
    IF p > Len(text) THEN <<>>
    ELSE LET m == CitationMatch(pattern, text, p)
         IN IF m.found
            THEN <<<<p, m.id>>>> \o CitationFinditer(pattern, text, m.stop)
            ELSE CitationFinditer(pattern, text, p + 1)

\* The order of tuples (position, doc_id).
TupleBefore(a, b) == a[1] < b[1] \/ (a[1] = b[1] /\ a[2] <= b[2])

\* A list left in the order in which the patterns were tried.
Unsorted(matches) == matches

\* matches.sort()
RECURSIVE Sorted(_)
Sorted(matches) ==
    IF matches = <<>> THEN <<>>
    ELSE LET rest == Sorted(Tail(matches))
             k == Cardinality({j \in 1..Len(rest) :
                                  ~TupleBefore(Head(matches), rest[j])})
         IN SubSeq(rest, 1, k) \o <<Head(matches)>> \o SubSeq(rest, k + 1, Len(rest))

\* The loop over `seen`: every element of `items` once, first occurrences kept.
RECURSIVE Unique(_)
Unique(items) ==
    IF items = <<>> THEN <<>>
    ELSE LET front == Unique(SubSeq(items, 1, Len(items) - 1))
             x == items[Len(items)]
         IN IF x \in Range(front) THEN front ELSE Append(front, x)

\* extract_citations(text)
ExtractCitations(text) ==
    LET matches == CitationFinditer(1, text, 1) \o CitationFinditer(2, text, 1)
                   \o CitationFinditer(3, text, 1) \o CitationFinditer(4, text, 1)
        ordered == Sorted(matches)
    IN Unique([k \in 1..Len(ordered) |-> ordered[k][2]])

\* Tokens of answers with quotes: a double quote, a backtick, a run of 9
\* characters and two different runs of 10 characters, none holding a quote
\* character.
DoubleQuote == "double quote"
Backtick == "backtick"
QuoteTokens == {DoubleQuote, Backtick, "nine_char", "ten_chars_", "ten_chars2"}

\* _MIN_QUOTE_LENGTH
MinQuoteLength == 10

\* _MAX_QUOTE_CHECK_LEN
MaxQuoteCheckLen == 60

\* len() of a token and of the tokens text[from..to-1]
ShortRun == MinQuoteLength - 1
LongRun == MinQuoteLength
TokenLen(tok) ==
    CASE tok \in {DoubleQuote, Backtick} -> 1
      [] tok = "nine_char" -> ShortRun
      [] tok = "fifty_chars" -> MaxQuoteCheckLen - MinQuoteLength
      [] OTHER -> LongRun

RECURSIVE CharLen(_, _, _)
CharLen(text, from, to) ==
    IF to <= from THEN 0
    ELSE CharLen(text, from, to - 1) + TokenLen(text[to - 1])

\* The position of the next `mark` at or after p, or Len(text) + 1.
RECURSIVE NextMark(_, _, _)
NextMark(mark, text, p) ==
    IF p > Len(text) \/ text[p] = mark THEN p ELSE NextMark(mark, text, p + 1)

\* _QUOTE_PATTERNS: mark([^mark]{10,})mark matched at p
QuoteMatch(mark, text, p) ==
    LET q == NextMark(mark, text, p + 1)
    IN IF /\ At(text, p) = mark
          /\ q <= Len(text)
          /\ CharLen(text, p + 1, q) >= MinQuoteLength
       THEN [found |-> TRUE, stop |-> q + 1, quote |-> SubSeq(text, p + 1, q - 1)]
       ELSE [found |-> FALSE, stop |-> 0, quote |-> <<>>]

\* pattern.finditer(text) from position p on, as match.group(1)
RECURSIVE QuoteFinditer(_, _, _)
QuoteFinditer(mark, text, p) ==
    IF p > Len(text) THEN <<>>
    ELSE LET m == QuoteMatch(mark, text, p)
         IN IF m.found
            THEN <<m.quote>> \o QuoteFinditer(mark, text, m.stop)
            ELSE QuoteFinditer(mark, text, p + 1)

\* extract_quotes(text): the double-quoted matches, then the backtick ones.
ExtractQuotes(text) ==
    Unique(QuoteFinditer(DoubleQuote, text, 1) \o QuoteFinditer(Backtick, text, 1))

\* An answer with citations, before extract_citations is called.
CitationsInit ==
    /\ answer_text \in SeqsUpTo(CitationTokens, MaxText)
    /\ citations = <<>>
    /\ quotes = <<>>
    /\ xpc = "call"

\* An answer with quotes, before extract_quotes is called.
QuotesInit ==
    /\ answer_text \in SeqsUpTo(QuoteTokens, MaxText)
    /\ citations = <<>>
    /\ quotes = <<>>
    /\ xpc = "call"

\* No answer to look at in the other specifications.
ExtractUnused ==
    /\ answer_text = <<>>
    /\ citations = <<>>
    /\ quotes = <<>>
    /\ xpc = "call"

\* citations = extract_citations(answer)
ExtractCitationsCall ==
    /\ xpc = "call"
    /\ citations' = ExtractCitations(answer_text)
    /\ xpc' = "returned"
    /\ UNCHANGED <<answer_text, quotes>>
    /\ UNCHANGED notExtract

\* quotes = extract_quotes(answer)
ExtractQuotesCall ==
    /\ xpc = "call"
    /\ quotes' = ExtractQuotes(answer_text)
    /\ xpc' = "returned"
    /\ UNCHANGED <<answer_text, citations>>
    /\ UNCHANGED notExtract

\* --------------------------------------------------------- validate_prompt
PromptTokens == Placeholders \cup {OpenTag, CloseTag}

\* The files validate_prompt is called for; one of them is no prompt file.
PromptFiles ==
    {"system.md", "subcall.md", "code_required.md", "verify_adversarial.md",
     "verify_code.md", "notes.md"}

\* PROMPT_SCHEMAS: required placeholders by file (optional is empty in each).
PROMPT_SCHEMAS ==
    [f \in {"system.md", "subcall.md", "code_required.md"} |->
        CASE f = "system.md" ->
                {"{doc_count}", "{total_chars}", "{doc_sizes_list}",
                 "{max_subcall_chars}"}
          [] f = "subcall.md" -> {InstructionHole, ContentHole}
          [] OTHER -> {}]

\* validate_prompt(filename, content): "accepted" when it returns.
ValidatePrompt(filename, text) ==
    IF filename \notin DOMAIN PROMPT_SCHEMAS THEN "PromptValidationError"
    ELSE IF PROMPT_SCHEMAS[filename] \ ExtractPlaceholders(text) # {}
    THEN "PromptValidationError"
    ELSE IF ExtractPlaceholders(text) \ PROMPT_SCHEMAS[filename] # {}
    THEN "PromptValidationError"
    ELSE IF filename = "subcall.md" /\ OpenTag \notin Range(text)
    THEN "PromptValidationError"
    ELSE IF filename = "subcall.md" /\ CloseTag \notin Range(text)
    THEN "PromptValidationError"
    ELSE "accepted"

ValidateInit ==
    /\ prompt_file \in PromptFiles
    /\ prompt_text \in SeqsUpTo(PromptTokens, MaxTemplate)
    /\ validation = "none"

\* No prompt to validate in the other specifications.
ValidateUnused ==
    /\ prompt_file = "code_required.md"
    /\ prompt_text = <<>>
    /\ validation = "none"

\* validate_prompt(prompt_file, prompt_text)
ValidatePromptCall ==
    /\ validation = "none"
    /\ validation' = ValidatePrompt(prompt_file, prompt_text)
    /\ UNCHANGED <<prompt_file, prompt_text>>
    /\ UNCHANGED notValidate

\* ------------------------------------------------------------------ redact
\* The letters in alphabetical order, to pair the two cases.
LowerCaseOrder ==
    <<"a", "b", "c", "d", "e", "f", "g", "h", "i", "j", "k", "l", "m",
      "n", "o", "p", "q", "r", "s", "t", "u", "v", "w", "x", "y", "z">>
UpperCaseOrder ==
    <<"A", "B", "C", "D", "E", "F", "G", "H", "I", "J", "K", "L", "M",
      "N", "O", "P", "Q", "R", "S", "T", "U", "V", "W", "X", "Y", "Z">>

\* The lengths the default patterns ask for.
MinKeyLength == 20
AwsKeyLength == 16
MaxPadding == 2

\* The number of parts a text to redact is made of.
MaxParts == 3

\* A text is a sequence of characters; these are the character classes of the
\* patterns.
LowerCase ==
    {"a", "b", "c", "d", "e", "f", "g", "h", "i", "j", "k", "l", "m", "n",
     "o", "p", "q", "r", "s", "t", "u", "v", "w", "x", "y", "z"}
UpperCase ==
    {"A", "B", "C", "D", "E", "F", "G", "H", "I", "J", "K", "L", "M", "N",
     "O", "P", "Q", "R", "S", "T", "U", "V", "W", "X", "Y", "Z"}
DecimalDigit ==
    {"0", "1", "2", "3", "4", "5", "6", "7", "8", "9"}
Alnum == LowerCase \cup UpperCase \cup DecimalDigit
Space == {" ", "\t", "\n", "\r", "\f"}

\* The character at position p, or EndOfText.
CharAt(text, p) == IF p \in 1..Len(text) THEN text[p] ELSE EndOfText

\* (?i): the character in lower case.
LowerOf ==
    [c \in UpperCase |->
        CHOOSE l \in LowerCase :
            \E k \in 1..Len(LowerCaseOrder) :
                LowerCaseOrder[k] = l /\ UpperCaseOrder[k] = c]
Lowered(c) == IF c \in UpperCase THEN LowerOf[c] ELSE c

\* The position after the longest run of characters of a class from p.
RECURSIVE RunEnd(_, _, _)
RunEnd(class, text, p) ==
    IF CharAt(text, p) \in class THEN RunEnd(class, text, p + 1) ELSE p

\* The position after a literal at p, or 0 when the text differs from it.
LiteralEnd(literal, text, p) ==
    IF /\ p + Len(literal) - 1 <= Len(text)
       /\ \A k \in 1..Len(literal) : text[p + k - 1] = literal[k]
    THEN p + Len(literal) ELSE 0

\* The same, ignoring case.
LiteralEndIgnoreCase(literal, text, p) ==
    IF /\ p + Len(literal) - 1 <= Len(text)
       /\ \A k \in 1..Len(literal) : Lowered(text[p + k - 1]) = literal[k]
    THEN p + Len(literal) ELSE 0

\* prefix[class]{MinKeyLength,}: the position after the match at p, or 0.
KeyEnd(prefix, class, text, p) ==
    LET q == LiteralEnd(prefix, text, p)
    IN  IF q # 0 /\ RunEnd(class, text, q) - q >= MinKeyLength
        THEN RunEnd(class, text, q) ELSE 0

\* word\s+[class]{MinKeyLength,}: the position after the match at p, or 0.
SchemeEnd(word, class, text, p) ==
    LET q == LiteralEnd(word, text, p)
        r == RunEnd(Space, text, q)
    IN  IF q # 0 /\ r > q /\ RunEnd(class, text, r) - r >= MinKeyLength
        THEN RunEnd(class, text, r) ELSE 0

\* api[_-]?key|secret|token|password, ignoring case.
KeywordEnd(text, p) ==
    LET api == LiteralEndIgnoreCase(<<"a", "p", "i">>, text, p)
        sep == IF api # 0 /\ CharAt(text, api) \in {"_", "-"}
               THEN api + 1 ELSE api
    IN  IF api # 0 /\ LiteralEndIgnoreCase(<<"k", "e", "y">>, text, sep) # 0
        THEN LiteralEndIgnoreCase(<<"k", "e", "y">>, text, sep)
        ELSE IF LiteralEndIgnoreCase(<<"s", "e", "c", "r", "e", "t">>, text, p) # 0
        THEN LiteralEndIgnoreCase(<<"s", "e", "c", "r", "e", "t">>, text, p)
        ELSE IF LiteralEndIgnoreCase(<<"t", "o", "k", "e", "n">>, text, p) # 0
        THEN LiteralEndIgnoreCase(<<"t", "o", "k", "e", "n">>, text, p)
        ELSE LiteralEndIgnoreCase(<<"p", "a", "s", "s", "w", "o", "r", "d">>, text, p)

\* \S+ from p: every character up to the next blank or the end of the text.
RECURSIVE NonSpaceEnd(_, _)
NonSpaceEnd(text, p) ==
    IF p <= Len(text) /\ text[p] \notin Space
    THEN NonSpaceEnd(text, p + 1) ELSE p

\* (?i)(api[_-]?key|secret|token|password)\s*[=:]\s*\S+
AssignmentEnd(text, p) ==
    LET q == KeywordEnd(text, p)
        r == RunEnd(Space, text, q)
        v == RunEnd(Space, text, r + 1)
    IN  IF q # 0 /\ CharAt(text, r) \in {"=", ":"} /\ NonSpaceEnd(text, v) > v
        THEN NonSpaceEnd(text, v) ELSE 0

\* AKIA[0-9A-Z]{AwsKeyLength}
AwsKeyEnd(text, p) ==
    LET q == LiteralEnd(<<"A", "K", "I", "A">>, text, p)
    IN  IF /\ q # 0
           /\ RunEnd(UpperCase \cup DecimalDigit, text, q) - q >= AwsKeyLength
        THEN q + AwsKeyLength ELSE 0

\* Basic\s+[a-zA-Z0-9+/]{MinKeyLength,}={0,MaxPadding}
BasicAuthEnd(text, p) ==
    LET q == SchemeEnd(<<"B", "a", "s", "i", "c">>, Alnum \cup {"+", "/"}, text, p)
        r == RunEnd({"="}, text, q)
    IN  IF q = 0 THEN 0
        ELSE IF r - q > MaxPadding THEN q + MaxPadding ELSE r

\* -----BEGIN\s+\w+\s+PRIVATE\s+KEY-----
PrivateKeyEnd(text, p) ==
    LET b == LiteralEnd(<<"-", "-", "-", "-", "-", "B", "E", "G", "I", "N">>, text, p)
        w == RunEnd(Space, text, b)
        s1 == RunEnd(Alnum \cup {"_"}, text, w)
        pr == RunEnd(Space, text, s1)
        s2 == LiteralEnd(<<"P", "R", "I", "V", "A", "T", "E">>, text, pr)
        k == RunEnd(Space, text, s2)
    IN  IF b # 0 /\ w > b /\ s1 > w /\ pr > s1 /\ s2 # 0 /\ k > s2
        THEN LiteralEnd(<<"K", "E", "Y", "-", "-", "-", "-", "-">>, text, k) ELSE 0

\* secret-\d+, the pattern of a custom configuration.
SecretNumberEnd(text, p) ==
    LET q == LiteralEnd(<<"s", "e", "c", "r", "e", "t", "-">>, text, p)
    IN  IF q # 0 /\ RunEnd(DecimalDigit, text, q) > q
        THEN RunEnd(DecimalDigit, text, q) ELSE 0

\* pattern.match(text, p): the position after the match, or 0.
PatternEnd(pattern, text, p) ==
    CASE pattern = "sk" -> KeyEnd(<<"s", "k", "-">>, Alnum, text, p)
      [] pattern = "anthropic" ->
            KeyEnd(<<"a", "n", "t", "h", "r", "o", "p", "i", "c", "-">>, Alnum \cup {"-"}, text, p)
      [] pattern = "Bearer" ->
            SchemeEnd(<<"B", "e", "a", "r", "e", "r">>, Alnum \cup {".", "_", "-"}, text, p)
      [] pattern = "assignment" -> AssignmentEnd(text, p)
      [] pattern = "AKIA" -> AwsKeyEnd(text, p)
      [] pattern = "Basic" -> BasicAuthEnd(text, p)
      [] pattern = "PRIVATE KEY" -> PrivateKeyEnd(text, p)
      [] OTHER -> SecretNumberEnd(text, p)

\* pattern.sub(placeholder, text) turned so that only the first match is
\* replaced.
RECURSIVE SubOnce(_, _, _, _)
SubOnce(pattern, placeholder, text, p) ==
    IF p > Len(text) THEN <<>>
    ELSE IF PatternEnd(pattern, text, p) # 0
    THEN placeholder \o SubSeq(text, PatternEnd(pattern, text, p), Len(text))
    ELSE <<text[p]>> \o SubOnce(pattern, placeholder, text, p + 1)

\* pattern.sub(placeholder, text) from position p on: every match, leftmost
\* first and without overlap, is replaced by the placeholder.
RECURSIVE Sub(_, _, _, _)
Sub(pattern, placeholder, text, p) ==
    IF p > Len(text) THEN <<>>
    ELSE IF PatternEnd(pattern, text, p) # 0
    THEN placeholder
            \o Sub(pattern, placeholder, text, PatternEnd(pattern, text, p))
    ELSE <<text[p]>> \o Sub(pattern, placeholder, text, p + 1)

\* RedactionConfig.default().patterns, in order.
DefaultPatterns ==
    <<"sk", "anthropic", "Bearer", "assignment", "AKIA", "Basic",
      "PRIVATE KEY">>

\* RedactionConfig.default()
DefaultRedaction ==
    [patterns |-> DefaultPatterns, placeholder |-> <<"[", "R", "E", "D", "A", "C", "T", "E", "D", "]">>]

\* The configurations: the default, the default with another placeholder,
\* one whose placeholder holds an assignment, and custom patterns.
RedactionConfigs ==
    {DefaultRedaction,
     [patterns |-> DefaultPatterns, placeholder |-> <<"[", "S", "E", "C", "R", "E", "T", "]">>],
     [patterns |-> DefaultPatterns, placeholder |-> <<"<", "s", "e", "c", "r", "e", "t", ":", "x", ">">>],
     [patterns |-> <<"secret-number">>, placeholder |-> <<"[", "H", "I", "D", "D", "E", "N", "]">>]}

\* redact(text, cfg): the patterns are substituted one after the other.
RECURSIVE Redact(_, _, _)
Redact(text, cfg, k) ==
    IF k > Len(cfg.patterns) THEN text
    ELSE Redact(Sub(cfg.patterns[k], cfg.placeholder, text, 1), cfg, k + 1)

\* What the texts are made of.
SecretParts ==
    {<<"s", "k", "-">>,
     <<"a", "b", "c", "d", "e", "f", "g", "h", "i", "j", "0", "1", "2", "3", "4", "5", "6", "7", "8", "9">>,
     <<"a", "n", "t", "h", "r", "o", "p", "i", "c", "-">>,
     <<"B", "e", "a", "r", "e", "r", " ">>,
     <<"t", "o", "k", "e", "n">>,
     <<"=">>,
     <<":">>,
     <<" ">>,
     <<"A", "K", "I", "A">>,
     <<"I", "O", "S", "F", "O", "D", "N", "N", "7", "E", "X", "A", "M", "P", "L", "E">>,
     <<"B", "a", "s", "i", "c", " ">>,
     <<"-", "-", "-", "-", "-", "B", "E", "G", "I", "N", " ", "R", "S", "A">>,
     <<" ", "P", "R", "I", "V", "A", "T", "E", " ", "K", "E", "Y", "-", "-", "-", "-", "-">>,
     <<"s", "e", "c", "r", "e", "t", "-">>,
     <<"1", "2">>,
     <<"A", "P", "I", "_", "K", "E", "Y">>,
     <<"x">>,
     <<"p", "a", "s", "s", "w", "o", "r", "d", "=",
       "h", "u", "n", "t", "e", "r", "2", " ">>}

RECURSIVE Concat(_)
Concat(parts) ==
    IF parts = <<>> THEN <<>> ELSE Head(parts) \o Concat(Tail(parts))

RedactInit ==
    /\ secret_text \in {Concat(parts) : parts \in SeqsUpTo(SecretParts, MaxParts)}
    /\ redaction \in RedactionConfigs
    /\ redacted = <<>>

\* Nothing to redact in the other specifications.
RedactUnused ==
    /\ secret_text = <<>>
    /\ redaction = DefaultRedaction
    /\ redacted = <<>>

\* redact(secret_text, redaction), then redact of what it returned.
RedactCall ==
    /\ Len(redacted) < 2
    /\ redacted' = Append(redacted,
            Redact(IF redacted = <<>> THEN secret_text ELSE redacted[1],
                   redaction, 1))
    /\ UNCHANGED <<secret_text, redaction>>
    /\ UNCHANGED notRedact

\* ------------------------------------------------- the callers of the pool
\* No caller holds an executor.
HeldNone == held = [t \in Threads |-> {}]

\* What thread t holds after its step: an acquire() that returns an executor
\* adds it, a release() or discard() that returns takes its argument away.
Holding(t) ==
    held' =
        IF pc[t] = "acquire" /\ pc'[t] = "idle" /\ last'.executor # NoExecutor
        THEN [held EXCEPT ![t] = @ \cup {last'.executor}]
        ELSE IF pc[t] \in {"release", "discard"} /\ pc'[t] = "idle"
        THEN [held EXCEPT ![t] = @ \ {local[t].executor}]
        ELSE held

\* -------------------------------------------------- build_verification_code
\* Number of phrases an answer to verify is made of, and of documents.
MaxPhrases == 3
MaxDocs == 3

\* Runs of characters quotes and documents are made of: runs of 10 in lower
\* case ("ten_chars_", "ten_chars2"), "ten_chars_" in upper case, a run of 10
\* holding a character outside the basic plane, and a run of 50.
UpperRun == "TEN_CHARS_"
AstralRun == "ten_astral"
EscapedRun == "ten_astral as \\ud83d\\ude00"
SurrogatesRun == "ten_astral as two surrogates"

\* What the answers are made of: citations, a word, and quoted spans.
Phrases ==
    {<<"Doc", " ", "1">>, <<"Doc", " ", "2">>, <<"context[", "1", "]">>,
     <<"Doc", " ", "1", "2">>, <<"Doc">>,
     <<DoubleQuote, "ten_chars_", DoubleQuote>>,
     <<DoubleQuote, UpperRun, DoubleQuote>>,
     <<Backtick, AstralRun, Backtick>>,
     <<DoubleQuote, "fifty_chars", "ten_chars_", "ten_chars2", DoubleQuote>>}

\* The documents of the sandbox.
Documents ==
    {<<"ten_chars_">>, <<UpperRun, "ten_chars2">>, <<AstralRun>>,
     <<"fifty_chars", "ten_chars_">>}

RECURSIVE Join(_)
Join(phrases) ==
    IF phrases = <<>> THEN <<>> ELSE Head(phrases) \o Join(Tail(phrases))

\* quote[:_MAX_QUOTE_CHECK_LEN]; the runs are cut between two of them.
RECURSIVE Truncated(_)
Truncated(quote) ==
    IF CharLen(quote, 1, Len(quote) + 1) <= MaxQuoteCheckLen THEN quote
    ELSE Truncated(SubSeq(quote, 1, Len(quote) - 1))

\* json.dumps(quote_text): a character outside the basic plane is written as
\* two \u escapes, the two halves of its surrogate pair.
JsonDumps(text) ==
    [k \in 1..Len(text) |-> IF text[k] = AstralRun THEN EscapedRun ELSE text[k]]

\* The value of a JSON string read as a Python string literal: every \u
\* escape is one character, so the pair stays two surrogate characters.
PythonLiteral(text) ==
    [k \in 1..Len(text) |->
        IF text[k] = EscapedRun THEN SurrogatesRun ELSE text[k]]

\* str.lower()
Lower(text) ==
    [k \in 1..Len(text) |-> IF text[k] = UpperRun THEN "ten_chars_" ELSE text[k]]

\* `needle in haystack`
In(needle, haystack) ==
    \E p \in 1..(Len(haystack) + 1) :
        /\ p + Len(needle) - 1 <= Len(haystack)
        /\ SubSeq(haystack, p, p + Len(needle) - 1) = needle

\* build_verification_code(answer): the statements of the program, one per
\* cited id and then one per quote, each quote tried on every cited id.
BuildVerificationCode(answer) ==
    LET doc_ids == ExtractCitations(answer)
        found_quotes == ExtractQuotes(answer)
    IN  [k \in 1..Len(doc_ids) |->
            [check |-> "citation", doc_id |-> doc_ids[k]]]
        \o [k \in 1..Len(found_quotes) |->
            [check |-> "quote",
             safe_quote |-> JsonDumps(Truncated(found_quotes[k])),
             doc_ids |-> doc_ids]]

\* context[doc_id] raises neither NameError nor IndexError.
CanLookUp(ctx, doc_id) == ctx.bound /\ doc_id + 1 <= Len(ctx.docs)

\* The loop over the cited ids of one quote: _found_in after the ids from k on.
RECURSIVE FoundIn(_, _, _, _, _)
FoundIn(q, doc_ids, ctx, k, found_in) ==
    IF k > Len(doc_ids) THEN found_in
    ELSE FoundIn(q, doc_ids, ctx, k + 1,
                 IF /\ CanLookUp(ctx, doc_ids[k])
                    /\ In(q, Lower(ctx.docs[doc_ids[k] + 1]))
                 THEN doc_ids[k] ELSE found_in)

\* What one statement of the program appends to `citations` or `quotes`.
Checked(statement, ctx) ==
    IF statement.check = "citation"
    THEN [doc_id |-> statement.doc_id,
          found |-> CanLookUp(ctx, statement.doc_id)]
    ELSE LET q == Lower(PythonLiteral(statement.safe_quote))
             found_in == FoundIn(q, statement.doc_ids, ctx, 1, -1)
         IN [text |-> PythonLiteral(statement.safe_quote),
             doc_id |-> found_in, found |-> found_in # -1]

\* The program run in the sandbox: the object it prints.
RunVerification(statements, ctx) ==
    LET done == [k \in 1..Len(statements) |-> Checked(statements[k], ctx)]
        citation == {k \in 1..Len(statements) : statements[k].check = "citation"}
    IN  [citations |-> SubSeq(done, 1, Cardinality(citation)),
         quotes |-> SubSeq(done, Cardinality(citation) + 1, Len(done))]

NoVerification == [citations |-> <<>>, quotes |-> <<>>]

VerifyInit ==
    /\ answer_text \in {Join(phrases) : phrases \in SeqsUpTo(Phrases, MaxPhrases)}
    /\ citations = <<>>
    /\ quotes = <<>>
    /\ xpc = "call"
    /\ context \in [bound : BOOLEAN, docs : SeqsUpTo(Documents, MaxDocs)]
    /\ context.bound \/ context.docs = <<>>
    /\ verification_code = <<>>
    /\ verified = NoVerification

\* Nothing to verify in the other specifications.
VerifyUnused ==
    /\ context = [bound |-> FALSE, docs |-> <<>>]
    /\ verification_code = <<>>
    /\ verified = NoVerification

\* code = build_verification_code(answer)
BuildVerificationCodeCall ==
    /\ xpc = "call"
    /\ verification_code' = BuildVerificationCode(answer_text)
    /\ xpc' = "built"
    /\ UNCHANGED <<answer_text, citations, quotes, context, verified>>
    /\ UNCHANGED <<poolVars, execVars, runnerVars, lineVars, retryVars,
                   engineVars, subVars, validateVars, redactVars, heldVars,
                   sessionVars>>

\* The program is executed where `context` is, and prints its result.
RunVerificationCode ==
    /\ xpc = "built"
    /\ verified' = RunVerification(verification_code, context)
    /\ xpc' = "returned"
    /\ UNCHANGED <<answer_text, citations, quotes, context,
                   verification_code>>
    /\ UNCHANGED <<poolVars, execVars, runnerVars, lineVars, retryVars,
                   engineVars, subVars, validateVars, redactVars, heldVars,
                   sessionVars>>

\* -------------------------------------------- execute() against runner.main()
\* The host side of ContainerExecutor.execute and the loop of runner.main,
\* joined by the two directions of the attach socket. Every line carries the
\* number of the execute() call it belongs to; the number is not part of the
\* JSON and no step reads it.
MaxExecutes == 3
MaxQueryCalls == 1

\* {"action": "execute", "code": code}: `queries` is the number of
\* llm_query calls the code makes.
ExecuteCommand(n, q) == [action |-> "execute", command |-> n, queries |-> q]

\* {"action": "llm_response", "result": ...}
LlmResponseLine(n) == [action |-> "llm_response", command |-> n, queries |-> 0]

\* A line the runner prints in reply to a command: `stdout` is the number of
\* llm_query requests found in the captured output.
ReplyLine(n, status, out) ==
    [action |-> "None", command |-> n, status |-> status, stdout |-> out]

HostIdle(n) == [pc |-> "idle", command |-> n]
MainLoop == [pc |-> "loop", command |-> 0, queries |-> 0, captured |-> 0,
             error |-> FALSE]

SessionInit ==
    /\ to_runner = <<>>
    /\ to_host = <<>>
    /\ host_at = HostIdle(0)
    /\ runner_at = MainLoop
    /\ execution_results = <<>>

\* No session in the other specifications.
SessionUnused == SessionInit

\* execute(): the command is sent.
ExecuteSendCommand ==
    /\ host_at.pc = "idle"
    /\ host_at.command < MaxExecutes
    /\ \E q \in 0..MaxQueryCalls :
          to_runner' = Append(to_runner, ExecuteCommand(host_at.command + 1, q))
    /\ host_at' = [pc |-> "reading", command |-> host_at.command + 1]
    /\ UNCHANGED <<to_host, runner_at, execution_results>>
    /\ UNCHANGED notSession

\* execute(): one turn of `while True` with a line to read. A line whose
\* action is llm_query goes to the handler, which returns or raises, or is
\* answered with an error text when there is no handler; any other line is
\* returned as the ExecutionResult.
ExecuteReadLine ==
    /\ host_at.pc = "reading"
    /\ to_host # <<>>
    /\ to_host' = Tail(to_host)
    /\ LET response_line == Head(to_host) IN
       IF response_line.action = "llm_query"
       THEN \E llm_query_handler \in {"None", "returns", "raises"} :
               /\ to_runner' = IF llm_query_handler = "raises" THEN to_runner
                               ELSE Append(to_runner,
                                           LlmResponseLine(host_at.command))
               /\ host_at' = IF llm_query_handler = "raises"
                             THEN HostIdle(host_at.command) ELSE host_at
               /\ UNCHANGED execution_results
       ELSE /\ execution_results' =
                   Append(execution_results,
                          [command |-> host_at.command,
                           reply |-> response_line.command,
                           status |-> response_line.status])
            /\ host_at' = HostIdle(host_at.command)
            /\ UNCHANGED to_runner
    /\ UNCHANGED runner_at
    /\ UNCHANGED notSession

\* execute(): no line arrives within `timeout` seconds, recv raises
\* socket.timeout and execute() ends with it.
ExecuteTimeout ==
    /\ host_at.pc = "reading"
    /\ to_host = <<>>
    /\ host_at' = HostIdle(host_at.command)
    /\ UNCHANGED <<to_runner, to_host, runner_at, execution_results>>
    /\ UNCHANGED notSession

\* main(): `for line in sys.stdin`. An execute command starts execute_code;
\* any other action is answered "Unknown action".
MainReadCommand ==
    /\ runner_at.pc = "loop"
    /\ to_runner # <<>>
    /\ to_runner' = Tail(to_runner)
    /\ LET command == Head(to_runner) IN
       IF command.action = "execute"
       THEN /\ runner_at' = [pc |-> "exec", command |-> command.command,
                             queries |-> command.queries, captured |-> 0,
                             error |-> FALSE]
            /\ UNCHANGED to_host
       ELSE /\ to_host' = Append(to_host, ReplyLine(command.command, "error", 0))
            /\ UNCHANGED runner_at
    /\ UNCHANGED <<host_at, execution_results>>
    /\ UNCHANGED notSession

\* llm_query(): the request is printed while sys.stdout is the capture of
\* execute_code, then the call waits in sys.stdin.readline().
LlmQueryRequest ==
    /\ runner_at.pc = "exec"
    /\ ~runner_at.error
    /\ runner_at.queries > 0
    /\ runner_at' = [runner_at EXCEPT !.pc = "wait", !.captured = @ + 1]
    /\ UNCHANGED <<to_runner, to_host, host_at, execution_results>>
    /\ UNCHANGED notSession

\* llm_query(): the next line of stdin is taken as the response; a line that
\* is no llm_response raises RuntimeError inside the code.
LlmQueryReadline ==
    /\ runner_at.pc = "wait"
    /\ to_runner # <<>>
    /\ to_runner' = Tail(to_runner)
    /\ runner_at' = IF Head(to_runner).action = "llm_response"
                    THEN [runner_at EXCEPT !.pc = "exec", !.queries = @ - 1]
                    ELSE [runner_at EXCEPT !.pc = "exec", !.error = TRUE]
    /\ UNCHANGED <<to_host, host_at, execution_results>>
    /\ UNCHANGED notSession

\* main(): the result of execute_code is printed.
MainPrintResult ==
    /\ runner_at.pc = "exec"
    /\ runner_at.error \/ runner_at.queries = 0
    /\ to_host' = Append(to_host,
                         ReplyLine(runner_at.command,
                                   IF runner_at.error THEN "error" ELSE "ok",
                                   runner_at.captured))
    /\ runner_at' = MainLoop
    /\ UNCHANGED <<to_runner, host_at, execution_results>>
    /\ UNCHANGED notSession

\* ---------------------------------------------------------- specifications
PoolStep(t) ==
    \/ StartCall(t)
    \/ StartCreate(t)
    \/ StartFinish(t)
    \/ StopLock(t)
    \/ StopAvailable(t)
    \/ StopInUse(t)
    \/ StopClear(t)
    \/ AcquireLock(t)
    \/ AcquireBody(t)
    \/ \E e \in 1..created : ReleaseLock(t, e)
    \/ ReleaseBody(t)
    \/ \E e \in 1..created : DiscardLock(t, e)
    \/ DiscardBody(t)

Init ==
    PoolInit /\ ExecutorUnused /\ RunnerUnused /\ LineUnused /\ RetryUnused
    /\ EngineUnused
    /\ SubcallUnused
    /\ ExtractUnused
    /\ ValidateUnused
    /\ RedactUnused
    /\ HeldNone
    /\ VerifyUnused
    /\ SessionUnused

Next == \E t \in Threads : PoolStep(t) /\ UNCHANGED heldVars

Spec == Init /\ [][Next]_vars

NextSeq == \E t \in SeqThreads : PoolStep(t) /\ UNCHANGED heldVars

SpecSeq == Init /\ [][NextSeq]_vars

\* One executor driven by one caller (a ContainerExecutor is not thread-safe).
InitExecutor ==
    /\ PoolInit /\ size = 0 /\ ExecutorInit
    /\ RunnerUnused /\ LineUnused /\ RetryUnused /\ EngineUnused
    /\ SubcallUnused
    /\ ExtractUnused
    /\ ValidateUnused
    /\ RedactUnused
    /\ HeldNone
    /\ VerifyUnused
    /\ SessionUnused

NextExecutor ==
    \/ ExecutorStart
    \/ ExecutorStop
    \/ SetupSend
    \/ SetupRead
    \/ ExecuteSend
    \/ ExecuteRead
    \/ ExecuteQuery

SpecExecutor == InitExecutor /\ [][NextExecutor]_vars

\* The runner process fed by whatever the other end of stdin writes.
InitRunner ==
    /\ PoolInit /\ size = 0 /\ ExecutorUnused
    /\ RunnerInit /\ LineUnused /\ RetryUnused /\ EngineUnused
    /\ SubcallUnused
    /\ ExtractUnused
    /\ ValidateUnused
    /\ RedactUnused
    /\ HeldNone
    /\ VerifyUnused
    /\ SessionUnused

NextRunner ==
    \/ RunnerCommand
    \/ RunnerExecute
    \/ RunnerStatement
    \/ RunnerQuery
    \/ RunnerResponse
    \/ RunnerFinish

SpecRunner == InitRunner /\ [][NextRunner]_vars

\* _read_line called again and again on one stream.
InitLine ==
    /\ PoolInit /\ size = 0 /\ ExecutorUnused
    /\ RunnerUnused /\ LineInit /\ RetryUnused /\ EngineUnused
    /\ SubcallUnused
    /\ ExtractUnused
    /\ ValidateUnused
    /\ RedactUnused
    /\ HeldNone
    /\ VerifyUnused
    /\ SessionUnused

NextLine ==
    \/ ReadLineCall
    \/ ReadLineTop
    \/ ReadLineHeader
    \/ ReadLinePayload
    \/ ReadLineRaw

SpecLine == InitLine /\ [][NextLine]_vars

\* One retry_with_backoff call, whatever fn does.  In SpecRetryLive the call
\* is never suspended for good: fn, on_retry and time.sleep return or raise.
InitRetry ==
    /\ PoolInit /\ size = 0 /\ ExecutorUnused
    /\ RunnerUnused /\ LineUnused /\ RetryInit /\ EngineUnused
    /\ SubcallUnused
    /\ ExtractUnused
    /\ ValidateUnused
    /\ RedactUnused
    /\ HeldNone
    /\ VerifyUnused
    /\ SessionUnused

NextRetry ==
    \/ RetryCall
    \/ RetryNotify
    \/ RetrySleep
    \/ RetryExhausted

SpecRetry == InitRetry /\ [][NextRetry]_vars

SpecRetryLive == SpecRetry /\ WF_vars(NextRetry)

\* Two query() calls, one after the other, on one engine; in SpecEngineLive
\* no step of a query is suspended for good: the model, the executor and the
\* pool return or raise.
InitEngine ==
    /\ EngineInit /\ ExecutorUnused
    /\ RunnerUnused /\ LineUnused /\ RetryUnused
    /\ SubcallUnused
    /\ ExtractUnused
    /\ ValidateUnused
    /\ RedactUnused
    /\ HeldNone
    /\ VerifyUnused
    /\ SessionUnused

NextEngine ==
    \/ EngineStart
    \/ EngineModelCall
    \/ EngineExecute
    \/ EngineRecover
    \/ EngineMaxIterations
    \/ EngineVerify
    \/ EngineSemantic
    \/ EngineFinish
    \/ EngineInterrupted
    \/ EngineQueryAgain

SpecEngine == InitEngine /\ [][NextEngine]_vars

SpecEngineLive == SpecEngine /\ WF_vars(NextEngine)

\* llm_query calls handled by one engine, whatever its validated template.
InitSubcall ==
    /\ PoolInit /\ size = 0 /\ ExecutorUnused
    /\ RunnerUnused /\ LineUnused /\ RetryUnused /\ EngineUnused
    /\ SubcallInit
    /\ ExtractUnused
    /\ ValidateUnused
    /\ RedactUnused
    /\ HeldNone
    /\ VerifyUnused
    /\ SessionUnused

NextSubcall ==
    \/ HandleLLMQuery

SpecSubcall == InitSubcall /\ [][NextSubcall]_vars


\* extract_citations applied to every answer made of the citation tokens.
InitCitations ==
    /\ PoolInit /\ size = 0 /\ ExecutorUnused
    /\ RunnerUnused /\ LineUnused /\ RetryUnused /\ EngineUnused
    /\ SubcallUnused /\ CitationsInit
    /\ ValidateUnused
    /\ RedactUnused
    /\ HeldNone
    /\ VerifyUnused
    /\ SessionUnused

NextCitations ==
    \/ ExtractCitationsCall

SpecCitations == InitCitations /\ [][NextCitations]_vars

\* extract_quotes applied to every answer made of the quote tokens.
InitQuotes ==
    /\ PoolInit /\ size = 0 /\ ExecutorUnused
    /\ RunnerUnused /\ LineUnused /\ RetryUnused /\ EngineUnused
    /\ SubcallUnused /\ QuotesInit
    /\ ValidateUnused
    /\ RedactUnused
    /\ HeldNone
    /\ VerifyUnused
    /\ SessionUnused

NextQuotes ==
    \/ ExtractQuotesCall

SpecQuotes == InitQuotes /\ [][NextQuotes]_vars


\* validate_prompt applied to every file name and every text of a few tokens.
InitValidate ==
    /\ PoolInit /\ size = 0 /\ ExecutorUnused
    /\ RunnerUnused /\ LineUnused /\ RetryUnused /\ EngineUnused
    /\ SubcallUnused /\ ExtractUnused /\ ValidateInit
    /\ RedactUnused
    /\ HeldNone
    /\ VerifyUnused
    /\ SessionUnused

NextValidate ==
    \/ ValidatePromptCall

SpecValidate == InitValidate /\ [][NextValidate]_vars


\* redact applied twice to every text of a few parts under every configuration.
InitRedact ==
    /\ PoolInit /\ size = 0 /\ ExecutorUnused
    /\ RunnerUnused /\ LineUnused /\ RetryUnused /\ EngineUnused
    /\ SubcallUnused /\ ExtractUnused /\ ValidateUnused /\ RedactInit
    /\ HeldNone
    /\ VerifyUnused
    /\ SessionUnused

NextRedact ==
    \/ RedactCall

SpecRedact == InitRedact /\ [][NextRedact]_vars


\* The pool called by threads that release and discard only what they hold.
HolderStep(t) ==
    \/ StartCall(t)
    \/ StartCreate(t)
    \/ StartFinish(t)
    \/ StopLock(t)
    \/ StopAvailable(t)
    \/ StopInUse(t)
    \/ StopClear(t)
    \/ AcquireLock(t)
    \/ AcquireBody(t)
    \/ \E e \in held[t] : ReleaseLock(t, e)
    \/ ReleaseBody(t)
    \/ \E e \in held[t] : DiscardLock(t, e)
    \/ DiscardBody(t)

NextHolders == \E t \in Threads : HolderStep(t) /\ Holding(t)

SpecHolders == Init /\ [][NextHolders]_vars


\* build_verification_code applied to every answer of a few phrases, and its
\* program run on every context of a few documents.
InitVerify ==
    /\ PoolInit /\ size = 0 /\ ExecutorUnused
    /\ RunnerUnused /\ LineUnused /\ RetryUnused /\ EngineUnused
    /\ SubcallUnused /\ ValidateUnused /\ RedactUnused /\ HeldNone
    /\ VerifyInit
    /\ SessionUnused

NextVerify ==
    \/ BuildVerificationCodeCall
    \/ RunVerificationCode

SpecVerify == InitVerify /\ [][NextVerify]_vars


\* A few execute() calls on one executor whose container runs runner.main().
InitSession ==
    /\ PoolInit /\ size = 0 /\ ExecutorUnused
    /\ RunnerUnused /\ LineUnused /\ RetryUnused /\ EngineUnused
    /\ SubcallUnused /\ ExtractUnused /\ ValidateUnused /\ RedactUnused
    /\ HeldNone /\ VerifyUnused
    /\ SessionInit

NextSession ==
    \/ ExecuteSendCommand
    \/ ExecuteReadLine
    \/ ExecuteTimeout
    \/ MainReadCommand
    \/ LlmQueryRequest
    \/ LlmQueryReadline
    \/ MainPrintResult

SpecSession == InitSession /\ [][NextSession]_vars

\* ------------------------------------------------------------------ claims
StopLabels == {"stop_available", "stop_in_use", "stop_clear"}

\* C1: at every time, whatever the interleaving of start, acquire, release,
\* discard and stop, no executor is both in the available queue and in the
\* in-use set.
C1_NoExecutorInBothSets == Range(available) \cap in_use = {}

\* An executor was released back while another is in use and a start() is
\* still appending.
C1_Witness ==
    /\ available # <<>>
    /\ in_use # {}
    /\ last.op = "release" /\ last.result = "returned"
    /\ \E t \in Threads : pc[t] = "start_loop"

\* C2 as claimed: an acquire() never returns an executor that discard() had
\* been called with before.
C2_AcquireNeverReturnsDiscarded ==
    (last.op = "acquire" /\ last.executor # NoExecutor)
        => last.executor \notin discarded

\* C2 amended: an acquire() never returns an executor that an earlier
\* discard() removed from the in-use set.
C2_AcquireNeverReturnsDropped ==
    (last.op = "acquire" /\ last.executor # NoExecutor)
        => last.executor \notin dropped

\* An acquire() returned a pooled executor after some executor was dropped.
C2_Witness ==
    /\ last.op = "acquire" /\ last.result = "pooled"
    /\ dropped # {}

\* C3 as claimed: a thread that is inside the body of a pool method (start,
\* stop, acquire, release, discard) holds the pool's mutex.
C3_MutationsUnderMutex == \A t \in Threads : pc[t] # "idle" => lock = t

PoolIdle == \A t \in Threads : pc[t] = "idle"

\* C4: called by one thread, a start() on a started pool creates nothing: when
\* start() was the last call to return the pool is started and start() has
\* warmed exactly `size` executors; when nothing else was ever acquired or
\* created they are exactly the available queue, all running.
C4_StartIdempotent ==
    (last.op = "start" /\ PoolIdle) =>
        /\ started
        /\ warmed = size
        /\ (peak = 0 /\ created = warmed) =>
               /\ available = [k \in 1..size |-> k]
               /\ Range(available) \subseteq running
               /\ in_use = {}

\* start(); start(): the second call found the pool started.
C4_Witness ==
    /\ last.op = "start" /\ last.result = "already_started"
    /\ peak = 0 /\ created = warmed /\ size > 0
    /\ PoolIdle

\* C5: an acquire() that finds the pool not started raises the pool-stopped
\* error, constructs no executor and leaves the available queue and the
\* in-use set as they were.
C5_AcquireOnStoppedPoolFails ==
    [][\A t \in Threads :
        (pc[t] = "acquire" /\ pc'[t] = "idle" /\ ~started) =>
            /\ last'.result = "PoolStopped"
            /\ created' = created
            /\ running' = running
            /\ available' = available
            /\ in_use' = in_use]_vars

\* An acquire() failed on a pool that had executors and was stopped.
C5_Witness ==
    /\ last.op = "acquire" /\ last.result = "PoolStopped"
    /\ created > 0 /\ ~started
    /\ PoolIdle

\* C6: on a started pool a thread inside acquire() can always go on (it waits
\* for no release; only the model's cap on executors can stop it), with an
\* empty queue it constructs and starts a new executor, and the executor it
\* returns is in the in-use set when it returns.
C6_AcquireNeverWaits ==
    /\ [](\A t \in Threads :
            (pc[t] = "acquire" /\ (available # <<>> \/ created < MaxExecutors))
                => ENABLED AcquireBody(t))
    /\ [][\A t \in Threads :
            (pc[t] = "acquire" /\ pc'[t] = "idle" /\ started) =>
                /\ last'.executor # NoExecutor
                /\ last'.executor \in in_use'
                /\ available = <<>> =>
                       /\ created' = created + 1
                       /\ last'.executor = created'
                       /\ last'.executor \in running']_vars

\* An acquire() on an exhausted pool returned a new executor beyond `size`.
C6_Witness ==
    /\ last.op = "acquire" /\ last.result = "created"
    /\ last.executor \in in_use
    /\ Cardinality(in_use) > size
    /\ size > 0

\* C7: called by one thread, stop() never raises; when it clears the pool every
\* executor of the available queue and of the in-use set has been stopped,
\* both end empty and the started flag false; on a pool that is empty and not
\* started no step of stop() changes the pool.
C7_StopStopsEverything ==
    /\ [](last.result # "RuntimeError")
    /\ [][\A t \in Threads :
            /\ (pc[t] = "stop_clear" /\ pc'[t] = "idle") =>
                   /\ (Range(available) \cup in_use) \cap running = {}
                   /\ available' = <<>>
                   /\ in_use' = {}
                   /\ started' = FALSE
            /\ ((pc[t] \in StopLabels \/ pc'[t] \in StopLabels)
                    /\ available = <<>> /\ in_use = {} /\ ~started) =>
                   UNCHANGED <<available, in_use, started, running, created>>]_vars

\* A stop() returned after executors had been acquired, all of them stopped.
C7_Witness ==
    /\ last.op = "stop" /\ last.result = "stopped"
    /\ peak > 0
    /\ running = {}

\* C8 as claimed: the pool never holds more executors (available plus in use)
\* than max(size, peak number in use at the same time).
C8_HeldAtMostPeak ==
    Len(available) + Cardinality(in_use) <= Max(size, peak)

\* The calls during which the executor talks to the sandbox.
ProtocolCalls == {"setup_context", "execute"}
ProtocolErrors == {"socket.timeout", "JSONDecodeError"}

\* C9 as claimed: after setup_context or execute ended in a protocol or
\* transport error (read timeout, EOF, a reply that is not JSON) the
\* executor's is_alive flag is false, and once false it stays false.
C9_ErrorClearsIsAlive ==
    /\ []((outcome.op \in ProtocolCalls /\ outcome.error \in ProtocolErrors) =>
            ("is_alive" \in DOMAIN executor /\ executor.is_alive = FALSE))
    /\ [][("is_alive" \in DOMAIN executor /\ executor.is_alive = FALSE) =>
            ("is_alive" \in DOMAIN executor' /\ executor'.is_alive = FALSE)]_vars

\* execute() is about to read the next reply, or has returned its result.
BetweenReplies ==
    \/ epc = "execute_read"
    \/ epc = "idle" /\ outcome.op = "execute" /\ outcome.status = "returned"

IsRequest(reply) == "action" \in DOMAIN reply /\ reply.action = "llm_query"
IsResponse(message) == message.action = "llm_response"
Requests == {k \in 1..Len(received) : IsRequest(received[k])}
Responses == SelectSeq(sent, IsResponse)
Field(reply, key, default) == IF key \in DOMAIN reply THEN reply[key] ELSE default

\* The ExecutionResult returned is the one of the last reply read, which is
\* the first that is no llm_query request.
ResultIsOfFirstFinalReply ==
    (epc = "idle" /\ outcome.op = "execute" /\ outcome.status = "returned") =>
        /\ received # <<>>
        /\ Requests = 1..(Len(received) - 1)
        /\ LET reply == received[Len(received)] IN
            /\ result.status = Field(reply, "status", "error")
            /\ result.stdout = Field(reply, "stdout", "")
            /\ result.stderr = Field(reply, "stderr", "")
            /\ result.return_value = Field(reply, "return_value", None)
            /\ result.error = Field(reply, "error", None)
            /\ result.final_answer = Field(reply, "final_answer", None)
            /\ result.final_var = Field(reply, "final_var", None)
            /\ result.final_value = Field(reply, "final_value", None)

IsReply(message) == "status" \in DOMAIN message
IsQueryRequest(message) ==
    "action" \in DOMAIN message /\ message.action = "llm_query"
RepliesWritten == Cardinality({k \in 1..Len(stdout) : IsReply(stdout[k])})

LastReply == stdout[Len(stdout)]

\* C12: when the program of an execute yields a FINAL sentinel as its
\* return value the reply carries final_answer, the sentinel's answer; when
\* it yields a FINAL_VAR sentinel the reply carries final_var, the name, and
\* final_value, str() of that name's value in the namespace.
C12_SentinelReachesReply ==
    (rpc = "loop" /\ handled = "execute") =>
        /\ return_value.type = "FinalAnswer" =>
               /\ "final_answer" \in DOMAIN LastReply
               /\ LastReply.final_answer = return_value.v
        /\ return_value.type = "FinalVar" =>
               /\ "final_var" \in DOMAIN LastReply
               /\ LastReply.final_var = return_value.v
               /\ "final_value" \in DOMAIN LastReply
               /\ return_value.v \in DOMAIN NAMESPACE =>
                      LastReply.final_value = NAMESPACE[return_value.v].v

UserNames == {"x", "r"}

\* C13: a name bound by one execute is visible to the later ones until a
\* reset; reset replies {status: ok}, removes every user-defined name, and
\* leaves FINAL, FINAL_VAR and llm_query bound.
C13_ResetClearsUserNames ==
    (rpc = "loop" /\ handled = "reset") =>
        /\ LastReply = [status |-> "ok"]
        /\ DOMAIN NAMESPACE \cap UserNames = {}
        /\ {"FINAL", "FINAL_VAR", "llm_query"} \subseteq DOMAIN NAMESPACE

\* C14: for every llm_query call of the program the runner emits an
\* llm_query message and waits for an llm_response line, whose result it
\* hands back to the program; the execute reply comes after all of them.
C14_QueriesEmitted ==
    /\ rpc = "readline" =>
           /\ stdout # <<>>
           /\ IsQueryRequest(LastReply)
    /\ \A k \in 1..Len(handed) : handed[k] = responses[k].result
    /\ rpc \in {"exec", "readline"} => RepliesWritten = commands - 1

\* ----------------------------------------------------- claims: _read_line
\* The newline-terminated lines of `data`, in order.
RECURSIVE LinesOf(_)
LinesOf(data) ==
    IF HasNewline(data)
    THEN <<BeforeNewline(data)>> \o LinesOf(AfterNewline(data))
    ELSE <<>>

\* The calls that returned a line, as opposed to what was left at EOF.
LinesReturned ==
    SelectSeq(returned, LAMBDA r : r.status = "returned" /\ ~r.eof)

\* C15: however the output is split into frames and the frames into
\* recv() chunks, the successive _read_line calls return the successive
\* newline-terminated lines of the concatenated payloads, no header byte
\* among them.
C15_LinesOfThePayloads ==
    Decodable(payload) =>
        /\ Len(LinesReturned) <= Len(LinesOf(payload))
        /\ \A k \in 1..Len(LinesReturned) :
               LinesReturned[k].raw = LinesOf(payload)[k]

\* C16: _read_line raises, and returns no string, when the stream is at EOF
\* before a complete line is there, when recv() times out, and when the
\* bytes of the line are not UTF-8.
C16_FailureIsReported ==
    \A k \in 1..Len(returned) :
        /\ returned[k].eof => returned[k].status = "raised"
        /\ returned[k].error = "socket.timeout" => returned[k].status = "raised"
        /\ ~Decodable(returned[k].raw) => returned[k].status = "raised"

\* ---------------------------------------------------------- claims: retry
Kind(k) == {i \in 1..Len(events) : events[i].kind = k}
FnCalls == Cardinality(Kind("fn"))
Done == wpc = "done"
LastEvent == events[Len(events)]

\* C17: a PermanentError raised by fn is propagated at once: the call of fn
\* that raised it is the last thing retry_with_backoff does (fn is not
\* called again, on_retry is not invoked for the error, no sleep follows),
\* and when it is the first call fn has been called exactly once.
C17_PermanentErrorPropagates ==
    \A i \in Kind("fn") :
        events[i].err.type = "PermanentError" =>
            /\ i = Len(events)
            /\ Done
            /\ ended = [status |-> "raised", error |-> events[i].err]
            /\ events[i].attempt = 0 => FnCalls = 1

C17_Witness ==
    /\ Done
    /\ ended.status = "raised"
    /\ ended.error.type = "PermanentError"
    /\ FnCalls = 1
    /\ config.max_retries > 0
    /\ on_retry # None

\* C18: retry_with_backoff terminates; when fn raised RateLimitError or
\* TransientError every time, fn was called exactly max_retries + 1 times
\* and the error of the last call is raised; when a call of fn returned,
\* retry_with_backoff returns and that call was the last.
C18_RetryTerminates ==
    /\ [](FnCalls <= config.max_retries + 1)
    /\ []((Done /\ \A i \in Kind("fn") : events[i].err.type \in RetryableErrors) =>
            /\ FnCalls = config.max_retries + 1
            /\ ended = [status |-> "raised", error |-> LastEvent.err])
    /\ [](\A i \in Kind("fn") :
            events[i].err.type = None =>
                /\ i = Len(events)
                /\ Done
                /\ ended.status = "returned")
    /\ <>Done

C18_Witness ==
    /\ Done
    /\ config.max_retries = 2
    /\ FnCalls = 3
    /\ ended.status = "raised"
    /\ ended.error = Exc("TransientError", 2)
    /\ events[1].err.type = "RateLimitError"

\* C19: with an on_retry callback, on_retry(err, attempt) is called once
\* for every retry, with attempt 0, 1, ... and the error just raised, and
\* the sleep of that retry comes right after it; nothing is called after the
\* attempt that ends the call, failed or successful.
C19_OnRetryBeforeEachSleep ==
    /\ on_retry # None =>
        /\ \A i \in Kind("on_retry") :
            /\ events[i].attempt = Cardinality({j \in Kind("on_retry") : j < i})
            /\ i > 1 /\ events[i - 1].kind = "fn"
            /\ events[i].err = events[i - 1].err
            /\ i < Len(events) =>
                   /\ events[i + 1].kind = "sleep"
                   /\ events[i + 1].attempt = events[i].attempt
        /\ \A i \in Kind("sleep") : events[i - 1].kind = "on_retry"
        /\ \A i \in Kind("fn") :
               events[i].attempt > 0 =>
                   /\ events[i - 1].kind = "sleep"
                   /\ events[i - 1].attempt = events[i].attempt - 1
        /\ Done => Cardinality(Kind("on_retry")) = FnCalls - 1
    /\ Done => (events # <<>> /\ LastEvent.kind = "fn")
    /\ Done => Cardinality(Kind("sleep")) = FnCalls - 1

C19_Witness ==
    /\ Done
    /\ on_retry # None
    /\ config.max_retries = 2
    /\ Cardinality(Kind("on_retry")) = 2
    /\ events[5].attempt = 1
    /\ ended.status = "raised"
    /\ ended.error.type = "RateLimitError"

\* min(base_delay * exponential_base^a, max_delay)
Backoff(a) ==
    LET grown == config.base_delay * Pow(config.exponential_base, a)
    IN  IF grown < config.max_delay THEN grown ELSE config.max_delay

\* C20: the sleep before retry a lasts Backoff(a) times a factor between
\* 1 - jitter and 1 + jitter; with jitter = 0 it lasts exactly Backoff(a),
\* which does not decrease from one retry to the next and is at most
\* max_delay.
C20_BackoffDelay ==
    \A i \in Kind("sleep") :
        LET a == events[i].attempt
            d == events[i].delay
        IN  /\ d * Percent >= Backoff(a) * (Percent - config.jitter)
            /\ d * Percent <= Backoff(a) * (Percent + config.jitter)
            /\ config.jitter = 0 =>
                /\ d = Backoff(a)
                /\ d <= config.max_delay
                /\ \A j \in Kind("sleep") : j < i => events[j].delay <= d

\* Three sleeps without jitter, the last one cut down to max_delay.
C20_Witness ==
    /\ config.jitter = 0
    /\ Cardinality(Kind("sleep")) = 3
    /\ \E i \in Kind("sleep") :
        /\ events[i].attempt = 2
        /\ events[i].delay = config.max_delay
        /\ config.base_delay * Pow(config.exponential_base, 2) > config.max_delay

\* --- RLMEngine ---------------------------------------------------------------
\* Number of calls `op` this query made with executor e.
CallsOf(op, e) ==
    Cardinality({k \in 1..Len(pool_calls) : pool_calls[k] = PoolCall(op, e)})

\* C21: without a pool, an execute that leaves the executor dead ends the
\* query at once with the executor-died answer (not the max-iterations one),
\* and the outer model is not called again: the calls made are those of the
\* iterations up to the one in which the executor died, one call when it died
\* in the first iteration, whatever max_iterations is.
C21_DeadExecutorEndsQuery ==
    /\ [][(~engine.pool /\ qpc = "execute" /\ ~is_alive')
            => /\ qpc' = "finishing"
               /\ query_result'.answer = ExecutorDiedText
               /\ llm_calls' = iteration + 1]_vars
    /\ [][(query_result.answer = ExecutorDiedText /\ qpc # "done")
            => /\ llm_calls' = llm_calls
               /\ query_result'.answer = ExecutorDiedText
               /\ qpc' = "done"]_vars
    /\ []((query_result.answer = ExecutorDiedText /\ iteration = 0)
            => llm_calls = 1)

C21_Witness ==
    /\ qpc = "done"
    /\ ~engine.pool
    /\ engine.max_iterations = MaxIterations
    /\ MaxIterations > 1
    /\ query_result.answer = ExecutorDiedText
    /\ llm_calls = 1

\* C22: with a pool, an execute that leaves the executor dead is followed by
\* one pool.discard and one stop() of that executor and the acquire of a
\* fresh, live one, with which the loop goes on; the dead executor is never
\* released: it is neither in use nor available afterwards.
C22_DeadExecutorReplaced ==
    /\ [][(engine.pool /\ qpc = "execute" /\ ~is_alive') => qpc' = "recover"]_vars
    /\ [][qpc = "recover"
            => /\ qpc' = "iterating"
               /\ current' # current
               /\ is_alive'
               /\ current' \in in_use'
               /\ pool_calls'[Len(pool_calls')] = PoolCall("acquire", current')
               /\ iteration' = iteration + 1]_vars
    /\ [](engine.pool =>
            \A e \in 1..created :
               /\ CallsOf("stop", e) <= 1
               /\ CallsOf("stop", e) = 1
                     => /\ CallsOf("discard", e) = 1
                        /\ CallsOf("release", e) = 0
                        /\ e \notin in_use
                        /\ e \notin Range(available)
                        /\ e \notin running)

\* A FINAL of the fresh executor is delivered after the dead one was replaced.
C22_Witness ==
    /\ qpc = "done"
    /\ engine.pool
    /\ query_result.answer = FinalText
    /\ \E e \in 1..created : CallsOf("discard", e) = 1 /\ CallsOf("stop", e) = 1

StepLines == [k \in 1..Len(trace) |-> StepLine(trace[k])]

SummaryStatuses == {"success", "interrupted", "error"}

\* The query has ended: it returned or raised.
QueryDone == qpc = "done"

\* C24: the trace file of a query that has ended is one header line, then the
\* step lines of the steps in the order in which they were recorded (their
\* iterations never decrease), then one summary line whose status is success,
\* interrupted or error; while the query runs the file is the header line and
\* the step lines so far.
C24_TraceFileShape ==
    /\ (qpc \notin {"starting", "done"}) => trace_file = <<HeaderLine>> \o StepLines
    /\ QueryDone =>
          /\ \E status \in SummaryStatuses :
                trace_file = <<HeaderLine>> \o StepLines \o <<SummaryLine(status)>>
          /\ \A j, k \in 1..Len(trace) :
                j < k => trace[j].iteration <= trace[k].iteration

C24_Witness ==
    /\ QueryDone
    /\ Len(trace_file) >= 5
    /\ trace_file[Len(trace_file)].status = "success"

\* C25: when an exception leaves the query, the lines already in the trace
\* file stay, and the file ends up as the header line, the step lines of the
\* steps recorded before the exception and one summary line whose status is
\* not success.
C25_PartialTraceOnException ==
    /\ [][qpc = "raised" =>
            /\ Len(trace_file') > Len(trace_file)
            /\ SubSeq(trace_file', 1, Len(trace_file)) = trace_file]_vars
    /\ []((QueryDone /\ query_result.raised # None) =>
            /\ \E status \in SummaryStatuses \ {"success"} :
                  trace_file = <<HeaderLine>> \o StepLines \o <<SummaryLine(status)>>
            /\ query_result.answer = None)

\* KeyboardInterrupt from the second model call: one iteration is in the file.
C25_Witness ==
    /\ QueryDone
    /\ query_result.raised = "KeyboardInterrupt"
    /\ llm_calls = 2
    /\ Len(trace_file) >= 4
    /\ trace_file[Len(trace_file)].status = "interrupted"

\* A step of type `step` that records a failure is in the trace.
ErrorStep(step) ==
    \E k \in 1..Len(trace) : trace[k].step = step /\ trace[k].error

\* C26: a query that saw a FINAL returns that answer, whatever the
\* verifications did: a failed citation verification (semantic verification)
\* leaves verification (semantic_verification) None and a VERIFICATION
\* (SEMANTIC_VERIFICATION) step recording the error, and nothing is raised.
C26_VerificationNeverBlocks ==
    (QueryDone /\ has_final) =>
       /\ query_result.answer = FinalText
       /\ query_result.raised = None
       /\ query_result.verification \in {None, "verified"}
       /\ query_result.semantic_verification \in {None, "verified"}
       /\ ErrorStep("VERIFICATION") => query_result.verification = None
       /\ ErrorStep("SEMANTIC_VERIFICATION")
             => query_result.semantic_verification = None
       /\ (engine.verify_citations /\ query_result.verification = None)
             => ErrorStep("VERIFICATION")
       /\ (engine.verify /\ query_result.semantic_verification = None)
             => ErrorStep("SEMANTIC_VERIFICATION")

C26_Witness ==
    /\ QueryDone
    /\ has_final
    /\ query_result.answer = FinalText
    /\ ErrorStep("VERIFICATION")
    /\ ErrorStep("SEMANTIC_VERIFICATION")
    /\ query_result.verification = None
    /\ query_result.semantic_verification = None

\* How a query that has ended ended.
Outcome ==
    CASE query_result.raised # None -> "error"
      [] query_result.answer = FinalText -> "final"
      [] query_result.answer = ExecutorDiedText -> "executor_died"
      [] query_result.answer = MaxIterationsText -> "max_iters"
      [] OTHER -> "none"

Occurs(w, p) ==
    \E i \in 0..(Len(p) - Len(w)) : SubSeq(p, i + 1, i + Len(w)) = w

CitedAt ==
    {<<p, CitationMatch(pattern, answer_text, p).id>> :
        <<pattern, p>> \in {x \in CitationPatterns \X (1..Len(answer_text)) :
                               CitationMatch(x[1], answer_text, x[2]).found}}

\* Where the document id is cited first.
FirstCited(id) ==
    CHOOSE p \in {c[1] : c \in {x \in CitedAt : x[2] = id}} :
        \A c \in CitedAt : c[2] = id => p <= c[1]

\* C29: extract_citations returns the ids cited by any of the four patterns
\* anywhere in the answer, each once, in the order of the positions at which
\* they are cited first.
C29_CitationsInOrder ==
    xpc = "returned" =>
       /\ Range(citations) = {c[2] : c \in CitedAt}
       /\ \A j, k \in 1..Len(citations) :
             j < k => /\ citations[j] # citations[k]
                      /\ FirstCited(citations[j]) < FirstCited(citations[k])

\* `context[2]Doc 1`: the Doc pattern is tried before the context pattern.
C29_Witness ==
    /\ xpc = "returned"
    /\ answer_text = <<"context[", "2", "]", "Doc", " ", "1">>
    /\ citations = <<2, 1>>

\* The quoted spans of the answer: a quote pattern matches at position p.
QuotedAt ==
    {<<p, QuoteMatch(mark, answer_text, p).quote>> :
        <<mark, p>> \in {x \in {DoubleQuote, Backtick} \X (1..Len(answer_text)) :
                            QuoteMatch(x[1], answer_text, x[2]).found}}

\* Where the span appears first.
FirstQuoted(quote) ==
    CHOOSE p \in {c[1] : c \in {x \in QuotedAt : x[2] = quote}} :
        \A c \in QuotedAt : c[2] = quote => p <= c[1]

\* C30: extract_quotes returns the spans of at least 10 characters that its
\* two patterns find in the answer, in double quotes or in backticks, each
\* once, in the order of the positions at which they appear first.
C30_QuotesInOrder ==
    xpc = "returned" =>
       /\ Range(quotes) =
             Range(QuoteFinditer(DoubleQuote, answer_text, 1))
                \cup Range(QuoteFinditer(Backtick, answer_text, 1))
       /\ \A j, k \in 1..Len(quotes) :
             j < k => /\ quotes[j] # quotes[k]
                      /\ FirstQuoted(quotes[j]) < FirstQuoted(quotes[k])

\* --- validate_prompt ---------------------------------------------------------
\* The required placeholders of the five prompt files.
RequiredPlaceholders ==
    [f \in {"system.md", "subcall.md", "code_required.md",
            "verify_adversarial.md", "verify_code.md"} |->
        CASE f = "system.md" ->
                {"{doc_count}", "{total_chars}", "{doc_sizes_list}",
                 "{max_subcall_chars}"}
          [] f = "subcall.md" -> {"{instruction}", "{content}"}
          [] f = "verify_adversarial.md" -> {"{findings}", "{documents}"}
          [] f = "verify_code.md" ->
                {"{previous_results}", "{findings}", "{documents}"}
          [] OTHER -> {}]

\* C31: for each of the five prompt files validate_prompt returns exactly
\* when the placeholders of the text are the required ones of the file, all
\* of them and no other, and, for subcall.md, both tags occur in the text;
\* in every other case it raises PromptValidationError.
C31_ValidatePromptAccepts ==
    (validation # "none" /\ prompt_file \in DOMAIN RequiredPlaceholders) =>
       /\ validation \in {"accepted", "PromptValidationError"}
       /\ validation = "accepted" <=>
             /\ Range(prompt_text) \cap Placeholders
                   = RequiredPlaceholders[prompt_file]
             /\ prompt_file = "subcall.md"
                   => {OpenTag, CloseTag} \subseteq Range(prompt_text)

\* --- redact ------------------------------------------------------------------
\* Both calls of redact have returned.
RedactedTwice == Len(redacted) = 2

\* C32: with the default configuration redact is idempotent: redacting what
\* redact returned changes nothing.
C32_RedactIdempotent ==
    (RedactedTwice /\ redaction = DefaultRedaction)
        => redacted[2] = redacted[1]

\* A text with two secrets was redacted twice under the default
\* configuration, and the first call replaced both.
C32_Witness ==
    /\ RedactedTwice
    /\ redaction = DefaultRedaction
    /\ redacted[1] # secret_text
    /\ \E p \in 1..Len(redacted[1]), q \in 1..Len(redacted[1]) :
          /\ p + Len(redaction.placeholder) <= q
          /\ LiteralEnd(redaction.placeholder, redacted[1], p) # 0
          /\ LiteralEnd(redaction.placeholder, redacted[1], q) # 0

\* C32 as stated: redact is idempotent under every configuration.
C32_RedactIdempotentAnyConfig ==
    RedactedTwice => redacted[2] = redacted[1]

\* --- ContainerExecutor.start / stop -----------------------------------------
\* A step that is a whole stop() call.
StopStep == epc = "idle" /\ epc' = "idle" /\ outcome'.op = "stop"

\* C33: stop() never raises, whether it is called before start(), after an
\* earlier stop() or on a running executor, and whichever of container.stop
\* and container.remove fails; when it returns the executor holds neither a
\* socket nor a container; a stop() that follows a stop() changes nothing.
C33_StopIsIdempotent ==
    [][StopStep =>
        /\ outcome'.status = "returned"
        /\ executor'.socket = None
        /\ executor'.container = None
        /\ (executor.container = None /\ executor.socket = None)
              => executor' = executor]_vars

\* stop() has returned from a started executor although both docker calls
\* failed.
C33_Witness ==
    /\ outcome = [op |-> "stop", status |-> "returned", error |-> None]
    /\ docker.runs # {}
    /\ docker.failed = {"stop", "remove"}
    /\ executor.socket = None
    /\ executor.container = None

\* What the container runs with: the keyword arguments of containers.run,
\* and the defaults of containers.run for those not given.
RunsWith(kwargs) ==
    [key \in DOMAIN RunDefaults |-> Get(kwargs, key, RunDefaults[key])]

\* C34: every container start() launches runs without network, with a
\* read-only root filesystem, all capabilities dropped, not privileged, with
\* no-new-privileges, and with the executor's memory and CPU limits.
C34_ContainersLockedDown ==
    \A kwargs \in docker.runs :
        /\ \A key \in DOMAIN ToDockerKwargs(DEFAULT_SECURITY) :
              RunsWith(kwargs)[key] = ToDockerKwargs(DEFAULT_SECURITY)[key]
        /\ RunsWith(kwargs).mem_limit = executor.memory_limit
        /\ RunsWith(kwargs).cpu_count = executor.cpu_count

\* --- ContainerPool: order, exclusivity, release --------------------------------
\* The position of executor e in a queue, 0 when it is not there.
PositionIn(queue, e) ==
    IF e \in Range(queue) THEN CHOOSE k \in 1..Len(queue) : queue[k] = e ELSE 0

\* C35: executors are reused first in, first out: an acquire() that finds the
\* queue non-empty returns its head, a release() that takes the executor back
\* appends it at the tail, and no step changes the order of two executors
\* that stay in the queue; so the head is the executor available longest.
C35_FifoReuse ==
    [][\A t \in Threads :
        /\ (pc[t] = "acquire" /\ pc'[t] = "idle" /\ started
                /\ available # <<>>) =>
               /\ last'.executor = Head(available)
               /\ available' = Tail(available)
        /\ (pc[t] = "release" /\ pc'[t] = "idle"
                /\ local[t].executor \in in_use) =>
               available' = Append(available, local[t].executor)
        /\ \A a \in Range(available) \cap Range(available'),
              b \in Range(available) \cap Range(available') :
               PositionIn(available, a) < PositionIn(available, b)
                   => PositionIn(available', a) < PositionIn(available', b)]_vars

\* Executor 2 was released before executor 1, and an acquire() returned it
\* first, leaving executor 1 in the queue.
C35_Witness ==
    /\ last.op = "acquire" /\ last.result = "pooled"
    /\ available # <<>>
    /\ last.executor > Head(available)

\* C37: when every caller releases and discards only executors it holds, no
\* executor is held by two callers at the same time: what acquire() returned
\* to one caller is returned to no other before that caller gives it back.
C37_ExclusiveUse ==
    \A t \in Threads : \A u \in Threads \ {t} : held[t] \cap held[u] = {}

\* Each of the two callers holds an executor, and the one acquired last came
\* from the queue of a pool that warms none: a caller had held and released it.
C37_Witness ==
    /\ \A t \in Threads : held[t] # {}
    /\ last.op = "acquire" /\ last.result = "pooled"
    /\ \E t \in Threads : held[t] = {last.executor}
    /\ size = 0

\* The executors that are in the pool: in the queue or in the in-use set.
InPool == Range(available) \cup in_use

\* C40: a release() of an executor that is not in the in-use set changes
\* neither the queue nor the in-use set; and no step puts an executor that is
\* out of the pool, as every executor is after stop(), back into it, whatever
\* is released afterwards and whether or not the pool is started again.
C40_ReleaseOfUnknownIgnored ==
    [][/\ \A t \in Threads :
            (pc[t] = "release" /\ pc'[t] = "idle"
                /\ local[t].executor \notin in_use) =>
               (available' = available /\ in_use' = in_use)
       /\ \A e \in 1..created : e \notin InPool => e \notin InPool']_vars

\* An executor acquired before a stop() was released after the pool was
\* started again, and the release was ignored.
C40_Witness ==
    /\ last.op = "release" /\ last.result = "ignored"
    /\ started
    /\ last.executor \notin running \cup discarded
    /\ last.executor \notin InPool
    /\ available # <<>>

\* --- build_verification_code ---------------------------------------------------
\* The first _MAX_QUOTE_CHECK_LEN characters of quote number k of the answer
\* occur, whatever the case, in a document the answer cites.
InCitedDocument(k) ==
    \E id \in Range(ExtractCitations(answer_text)) :
        /\ CanLookUp(context, id)
        /\ In(Lower(Truncated(ExtractQuotes(answer_text)[k])),
              Lower(context.docs[id + 1]))

\* C36: in what the generated program prints, a citation is found exactly
\* when context[N] can be looked up; a quote is found exactly when its first
\* 60 characters occur, whatever the case, in a cited document; and a quote
\* that is not found, as every quote of an answer without citations, has
\* doc_id -1.
C36_VerificationProgram ==
    xpc = "returned" =>
        /\ Len(verified.citations) = Len(ExtractCitations(answer_text))
        /\ Len(verified.quotes) = Len(ExtractQuotes(answer_text))
        /\ \A k \in 1..Len(verified.citations) :
              /\ verified.citations[k].doc_id = ExtractCitations(answer_text)[k]
              /\ verified.citations[k].found
                    <=> CanLookUp(context, verified.citations[k].doc_id)
        /\ \A k \in 1..Len(verified.quotes) :
              /\ verified.quotes[k].found <=> InCitedDocument(k)
              /\ ~verified.quotes[k].found => verified.quotes[k].doc_id = -1


\* The statements of a program that assign `_return_value_`.
SetsReturnValue(program_code) ==
    \E i \in 1..Len(program_code) :
        program_code[i].op \in {"final", "final_var", "return"}

\* C39: the return_value, final_answer and final_var fields of the reply to an
\* execute come from the code of that execute alone: when that code assigns
\* no `_return_value_`, the reply carries none of the three, whatever an
\* earlier execute left in the namespace.
C39_ReplyFromThisExecuteOnly ==
    (rpc = "loop" /\ handled = "execute" /\ ~SetsReturnValue(code)) =>
        /\ Get(LastReply, "return_value", NoneValue) = NoneValue
        /\ "final_answer" \notin DOMAIN LastReply
        /\ "final_var" \notin DOMAIN LastReply
        /\ LastReply.status = "error" => LastReply.error = err


\* C38: host and runner stay in step: whatever an execute() call returns is
\* the runner's reply to the command that same call sent, also after calls
\* that timed out or whose llm_query handler raised.
C38_HostAndRunnerInStep ==
    \A k \in 1..Len(execution_results) :
        execution_results[k].reply = execution_results[k].command

====
